---- MODULE Spec2Model ----
(***************************************************************************)
(* Retrieval and chat core of the thesis repository: SearchService         *)
(* (semanticSearch, atlasVectorSearch, manualVectorSearch,                 *)
(* findSimilarTheses, searchByTag, getAllTags), ChatService               *)
(* (processMessage, rewriteQuery, getSuggestedQuestions, summarizeThesis), *)
(* the vector utilities, the tag generator, the embedding service and the  *)
(* ingestion of theses (createThesis, createBatchTheses, the re-embedding  *)
(* migration).                                                             *)
(*                                                                         *)
(* Spec is the services under arbitrary callers, SpecSession one chat      *)
(* session whose caller feeds each returned history into the next turn,    *)
(* SpecTurns two chat turns in flight side by side, SpecVector the vector  *)
(* utilities, SpecTags the tag generator and SpecRewrite rewriteQuery,     *)
(* each applied to bounded inputs, SpecEmbed the lazily loaded embedding   *)
(* model under concurrent requests, SpecIngest the writers of the store.   *)
(*                                                                         *)
(* Numbers: scores are kept in tenths (1.0 is 10), and an embedding is an  *)
(* integer vector whose squared norm is 10, so that the dot product of two *)
(* normalized embeddings is an integer between -10 and 10.                 *)
(* Texts are sequences of one-character strings.                           *)
(***************************************************************************)
EXTENDS Integers, Sequences, FiniteSets, TLC

VARIABLES store, pc, op, queryEmbedding, optimizedQuery, rewriteOutcome,
          atlasOutcome, atlasResults, manualOutcome, relevantTheses,
          generateOutcome, calls, result, conversation, calc, embedder,
          turns, batch, migration

\* The state outside the search and chat services: the embedding service,
\* the chat turns in flight side by side, the batch being ingested, the
\* migration script.
others == <<embedder, turns, batch, migration>>

vars == <<store, pc, op, queryEmbedding, optimizedQuery, rewriteOutcome,
          atlasOutcome, atlasResults, manualOutcome, relevantTheses,
          generateOutcome, calls, result, conversation, calc, embedder,
          turns, batch, migration>>

(* ------------------------------ bounds --------------------------------- *)

\* Largest number of documents in the store.
MaxDocs == 3
\* Largest limit / topK a caller passes.
MaxLimit == 2
\* Largest number of answered turns in one conversation.
MaxTurns == 2
\* Largest number of documents in the store of a chat session.
SessionDocs == 1
\* Largest dimensionality of the vectors handed to the vector utilities.
MaxDim == 2
\* Number of embedding requests that can be in flight side by side.
MaxRequests == 2
MaxRaw == 5
MaxBatch == 2
MaxStored == 2

(* --------------------------- program constants ------------------------- *)

\* numCandidates of the $vectorSearch stage.
NumCandidates == 100
\* threshold default of semanticSearch: 0.5.
DefaultThreshold == 5
\* threshold processMessage passes to semanticSearch: 0.3.
ChatThreshold == 3
\* topK of a chat turn when the caller names none.
DefaultTopK == 3
\* The fewest and the most tags generateTags is to return.
MinTags == 3
MaxTags == 5
\* A parsed tag is shorter than this.
MaxTagLength == 30

\* embeddingDimensions of the embedding service.
EmbeddingDimensions == 384

\* rewriteQuery: a cleaned rewrite shorter than this is discarded.
MinQueryLength == 3

(* ------------------------------- data ---------------------------------- *)

\* Normalized embeddings of the current model (squared norm 10).
UnitVecs == {<<3, 1>>, <<1, 3>>, <<-1, 3>>}
\* An embedding stored by an earlier model, of another dimensionality.
LegacyVec == <<3, 1, 0>>
StoredVecs == UnitVecs \cup {LegacyVec}

\* The limits a caller can pass: parseInt(limit) is not range-checked, so
\* a negative limit and one above numCandidates are among them.
Limits == {-1} \cup (0 .. MaxLimit) \cup {NumCandidates + 1}
Thresholds == {0, ChatThreshold, DefaultThreshold}

Chars == {"a", "b", " ", "\n", "'"}
\* The characters of a generated rewrite: Chars, and a carriage return.
RawChars == Chars \cup {"\r"}
Messages == {<<"a", "a", "a">>, <<"b", "b", "b">>, <<"a", "b">>}

\* What the text-generation service can answer to the rewrite prompt.
RawRewrites ==
    { <<"b", "b", "b">>,
      <<" ", "'", "a", "b", "'", "\n">>,
      <<"a", "\n", "\n", "b">>,
      <<"'", "a", "b", "'">>,
      <<" ", "\n">>,
      <<>> }

\* What the text-generation service can answer to the answer prompt.
RawAnswers == { <<"a">>, <<" ", "b", "\n">> }

NoDocs == <<>>
NoText == <<>>

\* Tags as the tag generator stores them: lowercase, 3 to 5 per document,
\* no tag twice in one document.
TagAi == <<"a", "i">>
TagDb == <<"d", "b">>
TagMl == <<"m", "l">>
TagUx == <<"u", "x">>
TagsOf(i) ==
    IF i % 2 = 1 THEN <<TagMl, TagAi, TagDb>> ELSE <<TagUx, TagMl, TagDb>>

\* The title of the i-th document.
TitleOf(i) == <<"T", ToString(i)>>

\* The store: documents in natural (insertion) order, ids unique.
Stores ==
    UNION { { [i \in 1 .. n |->
                 [id |-> i, title |-> TitleOf(i), tags |-> TagsOf(i),
                  embeddings |-> f[i]]] :
                f \in [1 .. n -> StoredVecs] } : n \in 0 .. MaxDocs }

Ids(s) == { s[i].id : i \in 1 .. Len(s) }

(* ----------------------------- vectorUtils ----------------------------- *)

RECURSIVE SumProducts(_, _, _)
SumProducts(vecA, vecB, i) ==
    IF i > Len(vecA) THEN 0
    ELSE vecA[i] * vecB[i] + SumProducts(vecA, vecB, i + 1)

\* dotProduct throws when the lengths differ.
DotProductThrows(vecA, vecB) == Len(vecA) # Len(vecB)

dotProduct(vecA, vecB) == SumProducts(vecA, vecB, 1)

(* --------------------------- Array helpers ----------------------------- *)

Min2(a, b) == IF a < b THEN a ELSE b
Max2(a, b) == IF a > b THEN a ELSE b

\* Array.prototype.slice(0, end): a negative end counts from the end.
Slice0(s, end) ==
    LET e == IF end < 0 THEN Max2(Len(s) + end, 0) ELSE Min2(end, Len(s))
    IN  SubSeq(s, 1, e)

\* Insert x after every element whose score is >= x.score (stable).
RECURSIVE InsertDesc(_, _)
InsertDesc(sorted, x) ==
    IF sorted = <<>> THEN <<x>>
    ELSE IF Head(sorted).score >= x.score
         THEN <<Head(sorted)>> \o InsertDesc(Tail(sorted), x)
         ELSE <<x>> \o sorted

\* Insert x before the first element whose score is <= x.score.
RECURSIVE InsertDescFirst(_, _)
InsertDescFirst(sorted, x) ==
    IF sorted = <<>> THEN <<x>>
    ELSE IF Head(sorted).score > x.score
         THEN <<Head(sorted)>> \o InsertDescFirst(Tail(sorted), x)
         ELSE <<x>> \o sorted

\* Faulty variant: a descending sort that reverses equal scores.
RECURSIVE SortByScoreDescUnstable(_)
SortByScoreDescUnstable(s) ==
    IF s = <<>> THEN <<>>
    ELSE InsertDescFirst(SortByScoreDescUnstable(SubSeq(s, 1, Len(s) - 1)),
                         s[Len(s)])

\* Array.prototype.sort((a, b) => b.score - a.score): stable, descending.
RECURSIVE SortByScoreDesc(_)
SortByScoreDesc(s) ==
    IF s = <<>> THEN <<>>
    ELSE InsertDesc(SortByScoreDesc(SubSeq(s, 1, Len(s) - 1)), s[Len(s)])

AtLeast(threshold, r) == r.score >= threshold

FilterByThreshold(s, threshold) ==
    SelectSeq(s, LAMBDA r : AtLeast(threshold, r))

(* ------------------------------ text ----------------------------------- *)

CharCode(c) ==
    CASE c = "a" -> 0 [] c = "b" -> 1 [] c = " " -> 0
      [] c = "\n" -> 0 [] OTHER -> 2

RECURSIVE TextCode(_)
TextCode(t) == IF t = <<>> THEN 0 ELSE CharCode(Head(t)) + TextCode(Tail(t))

\* The embedding model: a fixed function from text to a normalized vector.
EmbedText(t) ==
    CASE TextCode(t) % 3 = 0 -> <<3, 1>>
      [] TextCode(t) % 3 = 1 -> <<1, 3>>
      [] OTHER -> <<-1, 3>>

IsSpace(c) == c \in {" ", "\n", "\r"}
IsQuote(c) == c \in {"'", "\""}

RECURSIVE TrimStart(_)
TrimStart(t) ==
    IF t # <<>> /\ IsSpace(Head(t)) THEN TrimStart(Tail(t)) ELSE t

RECURSIVE TrimEnd(_)
TrimEnd(t) ==
    IF t # <<>> /\ IsSpace(t[Len(t)])
    THEN TrimEnd(SubSeq(t, 1, Len(t) - 1)) ELSE t

\* String.prototype.trim
Trim(t) == TrimEnd(TrimStart(t))

\* replace(/^["']|["']$/g, ''): one quote off the start, one off the end.
StripQuotes(t) ==
    LET a == IF t # <<>> /\ IsQuote(Head(t)) THEN Tail(t) ELSE t
    IN  IF a # <<>> /\ IsQuote(a[Len(a)]) THEN SubSeq(a, 1, Len(a) - 1) ELSE a

\* replace(/\n+/g, ' '): every run of newlines becomes one space.
RECURSIVE ReplaceNewlines(_)
ReplaceNewlines(t) ==
    IF t = <<>> THEN <<>>
    ELSE IF Head(t) = "\n"
         THEN IF Len(t) > 1 /\ t[2] = "\n"
              THEN ReplaceNewlines(Tail(t))
              ELSE <<" ">> \o ReplaceNewlines(Tail(t))
         ELSE <<Head(t)>> \o ReplaceNewlines(Tail(t))

\* Faulty variant: the text is not trimmed again after the replacements.
CleanQueryUntrimmed(raw) == ReplaceNewlines(StripQuotes(Trim(raw)))

CleanQuery(raw) == Trim(ReplaceNewlines(StripQuotes(Trim(raw))))

\* Outcomes of a call: not yet made, thrown, returned.
Pending == [status |-> "none"]
Threw == [status |-> "error"]
Returned(value) == [status |-> "ok", value |-> value]

(* --------------------------- SearchService ----------------------------- *)

\* allTheses.map(thesis => ({...thesis, score, embeddings: undefined}))
ScoreAll(vec, theses) ==
    [i \in 1 .. Len(theses) |->
        [id |-> theses[i].id, title |-> theses[i].title,
         tags |-> theses[i].tags,
         score |-> dotProduct(vec, theses[i].embeddings)]]

\* The map throws as soon as one stored vector has another length.
ScoreAllThrows(vec, theses) ==
    \E i \in 1 .. Len(theses) : DotProductThrows(vec, theses[i].embeddings)

\* Faulty variant: the .sort(...) step left out.
manualVectorSearchUnsorted(queryVec, limit, threshold, allTheses) ==
    Slice0(FilterByThreshold(ScoreAll(queryVec, allTheses), threshold), limit)

\* Faulty variant: the .filter(...) step left out.
manualVectorSearchUnfiltered(queryVec, limit, threshold, allTheses) ==
    Slice0(SortByScoreDesc(ScoreAll(queryVec, allTheses)), limit)

\* Faulty variant: result.score > threshold instead of >=.
manualVectorSearchStrict(queryVec, limit, threshold, allTheses) ==
    Slice0(SortByScoreDesc(FilterByThreshold(ScoreAll(queryVec, allTheses),
                                             threshold + 1)), limit)

\* Faulty variant: the .slice(0, limit) step left out.
manualVectorSearchUncut(queryVec, limit, threshold, allTheses) ==
    SortByScoreDesc(FilterByThreshold(ScoreAll(queryVec, allTheses), threshold))

\* manualVectorSearch after Thesis.find({}) returned allTheses.
manualVectorSearch(queryVec, limit, threshold, allTheses) ==
    Slice0(SortByScoreDesc(FilterByThreshold(ScoreAll(queryVec, allTheses),
                                             threshold)), limit)

\* Faulty variant: documents of another dimensionality are left out.
ManualScanSkipping(queryVec, limit, threshold, allTheses) ==
    Returned(manualVectorSearch(queryVec, limit, threshold,
               SelectSeq(allTheses, LAMBDA d :
                   ~DotProductThrows(queryVec, d.embeddings))))

\* manualVectorSearch as semanticSearch sees it: dotProduct's throw leaves
\* the map, or the ranked list is returned.
ManualScan(queryVec, limit, threshold, allTheses) ==
    IF ScoreAllThrows(queryVec, allTheses) THEN Threw
    ELSE Returned(manualVectorSearch(queryVec, limit, threshold, allTheses))

\* vectorSearchScore of the index: (1 + similarity) / 2, in tenths.
IndexScore(queryVec, embeddings) == (10 + dotProduct(queryVec, embeddings)) \div 2

\* The documents the vector index holds when it has caught up with the
\* first k documents of the store; only vectors of the index's
\* dimensionality are indexed.
Indexed(queryVec, k) ==
    SelectSeq(SubSeq(store, 1, k),
              LAMBDA d : Len(d.embeddings) = Len(queryVec))

\* The candidate pool size the $vectorSearch stage is given for a limit:
\* numCandidates: 100, whatever the limit.
CandidatePool(limit) == NumCandidates

\* $vectorSearch rejects a limit below 1 or above numCandidates.
PipelineRejects(limit) == limit < 1 \/ limit > NumCandidates

\* The $vectorSearch stage: the limit nearest indexed documents, best first.
VectorSearchStage(queryVec, limit, indexed) ==
    Slice0(SortByScoreDesc(
             [i \in 1 .. Len(indexed) |->
                 [id |-> indexed[i].id, title |-> indexed[i].title,
                  tags |-> indexed[i].tags,
                  score |-> IndexScore(queryVec, indexed[i].embeddings)]]),
           limit)

\* The $match stage: score >= threshold.
MatchStage(candidates, threshold) == FilterByThreshold(candidates, threshold)

\* atlasVectorSearch when Thesis.aggregate(pipeline) does not throw.
atlasVectorSearch(queryVec, limit, threshold, indexed) ==
    MatchStage(VectorSearchStage(queryVec, limit, indexed), threshold)

\* Faulty variant: the $ne filter left out.
OtherThesesUnfiltered(thesisId) == store

\* Thesis.find({ _id: { $ne: thesisId } })
OtherTheses(thesisId) == SelectSeq(store, LAMBDA d : d.id # thesisId)

\* Faulty variant: an unknown id yields the first document of the store.
FindByIdOrFirst(thesisId) ==
    IF \E i \in 1 .. Len(store) : store[i].id = thesisId
    THEN SelectSeq(store, LAMBDA d : d.id = thesisId)
    ELSE IF store = <<>> THEN <<>> ELSE <<store[1]>>

\* Thesis.findById(thesisId): the document, or the empty sequence for null.
FindById(thesisId) == SelectSeq(store, LAMBDA d : d.id = thesisId)

\* Faulty variant: the search's default threshold applied here too.
SimilarRankingFiltered(referenceVec, limit, allTheses) ==
    Slice0(SortByScoreDesc(FilterByThreshold(
             ScoreAll(referenceVec, allTheses), DefaultThreshold)), limit)

\* findSimilarTheses after both store reads: sort, slice, no filter.
SimilarRanking(referenceVec, limit, allTheses) ==
    Slice0(SortByScoreDesc(ScoreAll(referenceVec, allTheses)), limit)

(* ---------------------------- ChatService ------------------------------ *)

\* rewriteQuery when generateText returned raw.
RewriteResult(userQuery, raw) ==
    LET cleanedQuery == CleanQuery(raw)
    IN  IF cleanedQuery = <<>> \/ Len(cleanedQuery) < MinQueryLength THEN userQuery
        ELSE cleanedQuery

\* Faulty variant: the catch returns an empty query.
RewriteFallbackEmpty(userQuery) == NoText

\* rewriteQuery when generateText threw: the catch returns userQuery.
RewriteFallback(userQuery) == userQuery

CannedAnswer == <<"n", "o", "n", "e">>

UserTurn(message) == [role |-> "user", content |-> message]
AssistantTurn(answer) == [role |-> "assistant", content |-> answer]

\* Faulty variant: the sources listed worst first.
FormatSourcesReversed(theses) ==
    [i \in 1 .. Len(theses) |->
        [id |-> theses[Len(theses) + 1 - i].id,
         title |-> theses[Len(theses) + 1 - i].title,
         tags |-> theses[Len(theses) + 1 - i].tags,
         relevanceScore |-> theses[Len(theses) + 1 - i].score]]

\* relevantTheses.map(thesis => ({id, title, tags, relevanceScore}))
FormatSources(theses) ==
    [i \in 1 .. Len(theses) |->
        [id |-> theses[i].id, title |-> theses[i].title,
         tags |-> theses[i].tags, relevanceScore |-> theses[i].score]]

\* Faulty variant: the question put to the model is the rewritten query.
PromptQuestionRewritten(message, optimized) == optimized

\* generateRAGResponse(message, context, conversationHistory): the question
\* of the answer prompt is the caller's message.
PromptQuestion(message, optimized) == message

Histories ==
    { <<>>, <<UserTurn(<<"a", "b">>), AssistantTurn(<<"a">>)>> }

(* ------------------------------ state ---------------------------------- *)

NoOp ==
    [kind |-> "none", text |-> NoText, limit |-> 0, threshold |-> 0,
     id |-> 0, history |-> <<>>]

NoResult ==
    [status |-> "none", error |-> "", cause |-> "", docs |-> NoDocs,
     answer |-> NoText, sources |-> <<>>, history |-> <<>>,
     tags |-> <<>>, questions |-> <<>>]

Failure(error, cause) ==
    [NoResult EXCEPT !.status = "error", !.error = error, !.cause = cause]

Docs(docs) == [NoResult EXCEPT !.status = "ok", !.docs = docs]

\* Faulty variant: the returned history starts afresh with this turn.
AnswerReplyFreshHistory(message, history, answer, theses) ==
    [NoResult EXCEPT
       !.status = "ok",
       !.answer = answer,
       !.sources = FormatSources(theses),
       !.history = <<UserTurn(message), AssistantTurn(answer)>>]

\* return { answer, sources, conversationHistory: [...conversationHistory,
\*   {role: 'user', content: message}, {role: 'assistant', content: answer}] }
AnswerReply(message, history, answer, theses) ==
    [NoResult EXCEPT
       !.status = "ok",
       !.answer = answer,
       !.sources = FormatSources(theses),
       !.history = history \o <<UserTurn(message), AssistantTurn(answer)>>]

\* Faulty variant: the canned answer is pushed on the history as well.
NoResultsReplyWithTurn(message, history) ==
    [NoResult EXCEPT
       !.status = "ok",
       !.answer = CannedAnswer,
       !.sources = <<>>,
       !.history = history \o
          <<UserTurn(message), AssistantTurn(CannedAnswer)>>]

\* if (relevantTheses.length === 0) return { answer, sources: [],
\*   conversationHistory: [...conversationHistory, {role: 'user', ...}] }
NoResultsReply(message, history) ==
    [NoResult EXCEPT
       !.status = "ok",
       !.answer = CannedAnswer,
       !.sources = <<>>,
       !.history = history \o <<UserTurn(message)>>]

\* No pure function is being evaluated.
NoCalc == [fn |-> "none"]

\* The embedding service not in use, and no batch being ingested.
NoEmbedder == [model |-> "none"]
NoBatch == [stage |-> "none"]
NoMigration == [stage |-> "none"]

Call(name, text, id) == [call |-> name, text |-> text, id |-> id]

\* No call is in flight in the services.
IdleServices ==
    /\ pc = "idle"
    /\ op = NoOp
    /\ queryEmbedding = <<>>
    /\ optimizedQuery = NoText
    /\ rewriteOutcome = "none"
    /\ atlasOutcome = "none"
    /\ atlasResults = NoDocs
    /\ manualOutcome = "none"
    /\ relevantTheses = NoDocs
    /\ generateOutcome = "none"
    /\ calls = <<>>
    /\ result = NoResult

\* Nothing goes on outside the search and chat services.
IdleOthers ==
    /\ embedder = NoEmbedder
    /\ turns = <<>>
    /\ batch = NoBatch
    /\ migration = NoMigration

Init ==
    /\ store \in Stores
    /\ IdleServices
    /\ conversation = <<>>
    /\ calc = NoCalc
    /\ IdleOthers

\* Faulty variant: processMessage pushes the user turn onto the given array.
GivenHistoryPushed(history, message) == Append(history, UserTurn(message))

\* The conversationHistory array after a step of processMessage used it:
\* slice(-3), forEach and the spreads read it and build new arrays, so the
\* array the caller passed is as it was.
GivenHistory(history, message) == history

HistoryRead == op' = [op EXCEPT !.history = GivenHistory(op.history, op.text)]

\* The array is read when the reply of a turn without documents is built.
HistoryReadOnReply ==
    IF op.kind = "chat" /\ pc' = "done" /\ result'.status = "ok"
    THEN HistoryRead
    ELSE op' = op

(* --------------------------- semanticSearch ---------------------------- *)

\* A caller invokes semanticSearch(query, {limit, threshold}).
SemanticSearchCall(query, limit, threshold) ==
    /\ pc = "idle"
    /\ op' = [NoOp EXCEPT !.kind = "search", !.text = query,
                          !.limit = limit, !.threshold = threshold]
    /\ pc' = "embed"
    /\ UNCHANGED <<store, queryEmbedding, optimizedQuery, rewriteOutcome,
                   atlasOutcome, atlasResults, manualOutcome, relevantTheses,
                   calls, result, generateOutcome, conversation, calc, others>>

\* Faulty variant: a chat turn treats a failed retrieval as an empty one.
SearchFailedAsEmpty(cause) ==
    /\ result' = IF op.kind = "chat"
                 THEN NoResultsReply(op.text, op.history)
                 ELSE Failure("SemanticSearchFailed", cause)
    /\ pc' = "done"
    /\ relevantTheses' = relevantTheses

\* semanticSearch's outer catch, and processMessage's catch around it.
SearchFailed(cause) ==
    /\ result' = IF op.kind = "chat"
                 THEN Failure("ChatProcessingFailed", cause)
                 ELSE Failure("SemanticSearchFailed", cause)
    /\ pc' = "done"
    /\ relevantTheses' = relevantTheses

\* semanticSearch returns results; processMessage goes on from there.
SearchReturned(results) ==
    /\ relevantTheses' = results
    /\ IF op.kind = "chat"
       THEN IF Len(results) = 0
            THEN /\ pc' = "done"
                 /\ result' = NoResultsReply(op.text, op.history)
            ELSE /\ pc' = "generate"
                 /\ result' = result
       ELSE /\ pc' = "done"
            /\ result' = Docs(results)

\* await embeddingService.generateQueryEmbedding(query)
EmbedQuery ==
    /\ pc = "embed"
    /\ LET query == IF op.kind = "chat" THEN optimizedQuery ELSE op.text
       IN  /\ calls' = Append(calls, Call("embed", query, 0))
           /\ \/ /\ queryEmbedding' = EmbedText(query)
                 /\ pc' = "atlas"
                 /\ UNCHANGED <<result, relevantTheses>>
              \/ /\ SearchFailed("Embedding")
                 /\ UNCHANGED queryEmbedding
    /\ UNCHANGED <<store, op, optimizedQuery, rewriteOutcome, atlasOutcome,
                   atlasResults, manualOutcome, generateOutcome,
                   conversation, calc, others>>

\* Faulty variant: if (results) return results
UseAtlasResultsAlways(results) == TRUE

\* if (results && results.length > 0) return results
UseAtlasResults(results) == Len(results) > 0

\* Faulty variant: the catch rethrows instead of falling back.
AtlasThrewRethrown ==
    /\ atlasOutcome' = "error"
    /\ atlasResults' = NoDocs
    /\ SearchFailed("Index")

\* Faulty variant: the catch tries the index again.
AtlasThrewRetried ==
    /\ atlasOutcome' = "error"
    /\ atlasResults' = NoDocs
    /\ pc' = "atlas"
    /\ UNCHANGED <<result, relevantTheses>>

\* catch (atlasError) { logger.warn(...) }: on to the manual search.
AtlasThrew ==
    /\ atlasOutcome' = "error"
    /\ atlasResults' = NoDocs
    /\ pc' = "manual"
    /\ UNCHANGED <<result, relevantTheses>>

\* try { results = await this.atlasVectorSearch(...) } catch { warn }
AtlasSearch ==
    /\ pc = "atlas"
    /\ calls' = Append(calls, Call("aggregate", NoText, 0))
    /\ \/ \* the aggregation throws: no index, backend error, bad limit
          AtlasThrew
       \/ \E k \in 0 .. Len(store) :
            LET results == atlasVectorSearch(queryEmbedding, op.limit,
                               op.threshold, Indexed(queryEmbedding, k))
            IN  /\ ~PipelineRejects(op.limit)
                /\ atlasResults' = results
                /\ IF UseAtlasResults(results)
                   THEN /\ atlasOutcome' = "hit"
                        /\ SearchReturned(results)
                   ELSE /\ atlasOutcome' = "empty"
                        /\ pc' = "manual"
                        /\ UNCHANGED <<result, relevantTheses>>
    /\ HistoryReadOnReply
    /\ UNCHANGED <<store, queryEmbedding, optimizedQuery, rewriteOutcome,
                   manualOutcome, generateOutcome, conversation, calc, others>>

\* Faulty variant: the scan strips the embeddings off the stored documents.
ScannedStoreStripped(theses) ==
    [i \in 1 .. Len(theses) |-> [theses[i] EXCEPT !.embeddings = <<>>]]

\* The documents after the scan: Thesis.find({}).lean() hands out copies
\* and the map builds new objects ({...thesis, embeddings: undefined}), so
\* the stored documents are as they were.
ScannedStore(theses) == theses

\* const results = await this.manualVectorSearch(...); return results
ManualSearch ==
    /\ pc = "manual"
    /\ calls' = Append(calls, Call("find", NoText, 0))
    /\ \/ \* Thesis.find({}) throws
          /\ manualOutcome' = "error"
          /\ SearchFailed("Store")
       \/ LET scan == ManualScan(queryEmbedding, op.limit, op.threshold,
                                 store)
          IN  IF scan = Threw
              THEN /\ manualOutcome' = "error"
                   /\ SearchFailed("DimensionMismatch")
              ELSE /\ manualOutcome' = "ok"
                   /\ SearchReturned(scan.value)
    /\ store' = ScannedStore(store)
    /\ HistoryReadOnReply
    /\ UNCHANGED <<queryEmbedding, optimizedQuery, rewriteOutcome,
                   atlasOutcome, atlasResults, generateOutcome, conversation,
                   calc, others>>

(* -------------------------- findSimilarTheses -------------------------- *)

FindSimilarCall(thesisId, limit) ==
    /\ pc = "idle"
    /\ op' = [NoOp EXCEPT !.kind = "similar", !.id = thesisId,
                          !.limit = limit]
    /\ pc' = "findReference"
    /\ UNCHANGED <<store, queryEmbedding, optimizedQuery, rewriteOutcome,
                   atlasOutcome, atlasResults, manualOutcome, relevantTheses,
                   calls, result, generateOutcome, conversation, calc, others>>

\* const referenceThesis = await Thesis.findById(thesisId)
FindReference ==
    /\ pc = "findReference"
    /\ calls' = Append(calls, Call("findById", NoText, op.id))
    /\ \/ \* the lookup throws
          /\ result' = Failure("SimilarSearchFailed", "Store")
          /\ pc' = "done"
          /\ UNCHANGED queryEmbedding
       \/ /\ FindById(op.id) = <<>>
          /\ result' = Failure("SimilarSearchFailed", "ThesisNotFound")
          /\ pc' = "done"
          /\ UNCHANGED queryEmbedding
       \/ /\ FindById(op.id) # <<>>
          /\ queryEmbedding' = FindById(op.id)[1].embeddings
          /\ pc' = "findOthers"
          /\ UNCHANGED result
    /\ UNCHANGED <<store, op, optimizedQuery, rewriteOutcome, atlasOutcome,
                   atlasResults, manualOutcome, relevantTheses,
                   generateOutcome, conversation, calc, others>>

\* Thesis.find({_id: {$ne: thesisId}}), then map, sort, slice.
FindOthers ==
    /\ pc = "findOthers"
    /\ calls' = Append(calls, Call("find", NoText, op.id))
    /\ pc' = "done"
    /\ LET allTheses == OtherTheses(op.id)
       IN  \/ result' = Failure("SimilarSearchFailed", "Store")
           \/ /\ ScoreAllThrows(queryEmbedding, allTheses)
              /\ result' = Failure("SimilarSearchFailed", "DimensionMismatch")
           \/ /\ ~ScoreAllThrows(queryEmbedding, allTheses)
              /\ result' = Docs(SimilarRanking(queryEmbedding, op.limit,
                                               allTheses))
    /\ UNCHANGED <<store, op, queryEmbedding, optimizedQuery, rewriteOutcome,
                   atlasOutcome, atlasResults, manualOutcome, relevantTheses,
                   generateOutcome, conversation, calc, others>>

(* ---------------------------- processMessage --------------------------- *)

\* A caller invokes processMessage(message, {conversationHistory, topK}).
ProcessMessageCall(message, history, topK) ==
    /\ pc = "idle"
    /\ op' = [NoOp EXCEPT !.kind = "chat", !.text = message,
                          !.limit = topK, !.threshold = ChatThreshold,
                          !.history = history]
    /\ pc' = "rewrite"
    /\ UNCHANGED <<store, queryEmbedding, optimizedQuery, rewriteOutcome,
                   atlasOutcome, atlasResults, manualOutcome, relevantTheses,
                   calls, result, generateOutcome, conversation, calc, others>>

\* Step 1: const optimizedQuery = await this.rewriteQuery(message, history)
RewriteQuery ==
    /\ pc = "rewrite"
    /\ calls' = Append(calls, Call("generate:rewrite", op.text, 0))
    /\ \/ \* aiService.generateText throws
          /\ rewriteOutcome' = "threw"
          /\ optimizedQuery' = RewriteFallback(op.text)
       \/ \E raw \in RawRewrites :
            /\ rewriteOutcome' = "returned"
            /\ optimizedQuery' = RewriteResult(op.text, raw)
    /\ pc' = "embed"
    /\ HistoryRead
    /\ UNCHANGED <<store, queryEmbedding, atlasOutcome, atlasResults,
                   manualOutcome, relevantTheses, result, generateOutcome,
                   conversation, calc, others>>

\* Steps 3 to 5: context, generateRAGResponse(message, ...), sources, return.
GenerateAnswer ==
    /\ pc = "generate"
    /\ calls' = Append(calls,
                 Call("generate:answer", PromptQuestion(op.text, optimizedQuery),
                      0))
    /\ pc' = "done"
    /\ \/ /\ generateOutcome' = "threw"
          /\ result' = Failure("ChatProcessingFailed", "Generation")
       \/ \E raw \in RawAnswers :
            LET answer == Trim(raw)
            IN  /\ generateOutcome' = "returned"
                /\ result' = AnswerReply(op.text, op.history, answer,
                                         relevantTheses)
    /\ HistoryRead
    /\ UNCHANGED <<store, queryEmbedding, optimizedQuery, rewriteOutcome,
                   atlasOutcome, atlasResults, manualOutcome, relevantTheses,
                   conversation, calc, others>>

(* ---------------------------- summarizeThesis -------------------------- *)

SummarizeCall(thesisId) ==
    /\ pc = "idle"
    /\ op' = [NoOp EXCEPT !.kind = "summarize", !.id = thesisId]
    /\ pc' = "summaryLookup"
    /\ UNCHANGED <<store, queryEmbedding, optimizedQuery, rewriteOutcome,
                   atlasOutcome, atlasResults, manualOutcome, relevantTheses,
                   calls, result, generateOutcome, conversation, calc, others>>

\* const thesis = await Thesis.findById(thesisId); if (!thesis) throw
SummaryLookup ==
    /\ pc = "summaryLookup"
    /\ calls' = Append(calls, Call("findById", NoText, op.id))
    /\ \/ /\ result' = Failure("SummarizationFailed", "Store")
          /\ pc' = "done"
       \/ /\ FindById(op.id) = <<>>
          /\ result' = Failure("SummarizationFailed", "ThesisNotFound")
          /\ pc' = "done"
       \/ /\ FindById(op.id) # <<>>
          /\ pc' = "summaryGenerate"
          /\ UNCHANGED result
    /\ UNCHANGED <<store, op, queryEmbedding, optimizedQuery, rewriteOutcome,
                   atlasOutcome, atlasResults, manualOutcome, relevantTheses,
                   generateOutcome, conversation, calc, others>>

\* const summary = await aiService.generateText(prompt, ...)
SummaryGenerate ==
    /\ pc = "summaryGenerate"
    /\ calls' = Append(calls, Call("generate:summary", NoText, op.id))
    /\ pc' = "done"
    /\ \/ result' = Failure("SummarizationFailed", "Generation")
       \/ \E raw \in RawAnswers :
            result' = [NoResult EXCEPT !.status = "ok", !.answer = Trim(raw)]
    /\ UNCHANGED <<store, op, queryEmbedding, optimizedQuery, rewriteOutcome,
                   atlasOutcome, atlasResults, manualOutcome, relevantTheses,
                   generateOutcome, conversation, calc, others>>

(* ------------------------- tags and suggestions ------------------------ *)

\* The letters, in code-unit order.
Letters ==
    <<"a", "b", "c", "d", "e", "f", "g", "h", "i", "j", "k", "l", "m",
      "n", "o", "p", "q", "r", "s", "t", "u", "v", "w", "x", "y", "z">>

LetterRank(c) == CHOOSE i \in 1 .. Len(Letters) : Letters[i] = c

\* String comparison of Array.prototype.sort(): by code units, a proper
\* prefix first.
RECURSIVE LexLess(_, _)
LexLess(s, t) ==
    IF t = <<>> THEN FALSE
    ELSE IF s = <<>> THEN TRUE
    ELSE IF Head(s) = Head(t) THEN LexLess(Tail(s), Tail(t))
    ELSE LetterRank(Head(s)) < LetterRank(Head(t))

\* tags.sort()
RECURSIVE SortTags(_)
SortTags(tagSet) ==
    IF tagSet = {} THEN <<>>
    ELSE LET least == CHOOSE t \in tagSet :
                        \A u \in tagSet \ {t} : LexLess(t, u)
         IN  <<least>> \o SortTags(tagSet \ {least})

\* Thesis.distinct('tags'): every tag of every document, once.
DistinctTags(theses) ==
    UNION { { theses[i].tags[j] : j \in 1 .. Len(theses[i].tags) } :
              i \in 1 .. Len(theses) }

\* topTags[i] || fallback
TagOr(topTags, i, fallback) ==
    IF i <= Len(topTags) /\ topTags[i] # <<>> THEN topTags[i] ELSE fallback

Question(kind, topic) == [question |-> kind, topic |-> topic]

\* The two generic questions of an empty store.
GenericQuestions ==
    <<Question("available-in-repository", NoText),
      Question("latest-topics", NoText)>>

\* The four questions built from the first tags.
TagQuestions(allTags) ==
    LET topTags == Slice0(allTags, 5)
    IN  <<Question("related-to", TagOr(topTags, 1, <<"research">>)),
          Question("summarize-about", TagOr(topTags, 2, <<"technology">>)),
          Question("most-recent", NoText),
          Question("research-on", TagOr(topTags, 3, <<"science">>))>>

\* Faulty variant: the catch gives up with an empty list.
QuestionsOnErrorNone == <<>>

\* catch (error) { return ['What theses are available?'] }
QuestionsOnError == <<Question("available", NoText)>>

\* A caller invokes getAllTags().
GetAllTagsCall ==
    /\ pc = "idle"
    /\ op' = [NoOp EXCEPT !.kind = "tags"]
    /\ pc' = "distinct"
    /\ UNCHANGED <<store, queryEmbedding, optimizedQuery, rewriteOutcome,
                   atlasOutcome, atlasResults, manualOutcome, relevantTheses,
                   generateOutcome, calls, result, conversation, calc, others>>

\* A caller invokes getSuggestedQuestions().
SuggestCall ==
    /\ pc = "idle"
    /\ op' = [NoOp EXCEPT !.kind = "suggest"]
    /\ pc' = "distinct"
    /\ UNCHANGED <<store, queryEmbedding, optimizedQuery, rewriteOutcome,
                   atlasOutcome, atlasResults, manualOutcome, relevantTheses,
                   generateOutcome, calls, result, conversation, calc, others>>

\* const tags = await Thesis.distinct('tags'); return tags.sort(), and what
\* getSuggestedQuestions makes of it.
GetAllTags ==
    /\ pc = "distinct"
    /\ calls' = Append(calls, Call("distinct", NoText, 0))
    /\ pc' = "done"
    /\ \/ \* Thesis.distinct throws: getAllTags rethrows
          result' = IF op.kind = "suggest"
                    THEN [NoResult EXCEPT !.status = "ok",
                                          !.questions = QuestionsOnError]
                    ELSE Failure("TagRetrievalFailed", "Store")
       \/ LET allTags == SortTags(DistinctTags(store))
          IN  result' =
                IF op.kind = "suggest"
                THEN [NoResult EXCEPT
                        !.status = "ok",
                        !.questions = IF Len(allTags) = 0
                                      THEN GenericQuestions
                                      ELSE TagQuestions(allTags)]
                ELSE [NoResult EXCEPT !.status = "ok", !.tags = allTags]
    /\ UNCHANGED <<store, op, queryEmbedding, optimizedQuery, rewriteOutcome,
                   atlasOutcome, atlasResults, manualOutcome, relevantTheses,
                   generateOutcome, conversation, calc, others>>

(* ------------------------------ searchByTag ---------------------------- *)

Capitals ==
    <<"A", "B", "C", "D", "E", "F", "G", "H", "I", "J", "K", "L", "M",
      "N", "O", "P", "Q", "R", "S", "T", "U", "V", "W", "X", "Y", "Z">>

\* toLowerCase of one character.
Lower(c) ==
    IF \E i \in 1 .. Len(Capitals) : Capitals[i] = c
    THEN Letters[CHOOSE i \in 1 .. Len(Capitals) : Capitals[i] = c]
    ELSE c
LowerText(t) == [i \in 1 .. Len(t) |-> Lower(t[i])]

\* new RegExp(tag, 'i') finds a match in text: tag occurs in it, whatever
\* the case.
RegexMatches(tag, text) ==
    \E i \in 1 .. Len(text) - Len(tag) + 1 :
        SubSeq(LowerText(text), i, i + Len(tag) - 1) = LowerText(tag)

\* The tags a caller searches for.
TagQueries == { TagMl, <<"A", "I">>, <<"x">>, <<"q">> }

\* The limits a caller passes to searchByTag; 0 asks the store for no limit.
TagLimits == 0 .. MaxLimit

Reverse(seq) == [i \in 1 .. Len(seq) |-> seq[Len(seq) + 1 - i]]

\* Thesis.find({tags: {$regex}}).select('-embeddings').limit(limit)
\*   .skip(skip).sort({createdAt: -1}): newest first, then skip, then limit.
TagSearch(tag, limit, skip) ==
    LET hits == SelectSeq(store, LAMBDA d :
                   \E j \in 1 .. Len(d.tags) : RegexMatches(tag, d.tags[j]))
        newestFirst == Reverse(hits)
        skipped == SubSeq(newestFirst, skip + 1, Len(newestFirst))
        page == IF limit = 0 THEN skipped ELSE Slice0(skipped, limit)
    IN  [i \in 1 .. Len(page) |->
            [id |-> page[i].id, title |-> page[i].title,
             tags |-> page[i].tags]]

\* A caller invokes searchByTag(tag, {limit, skip}).
SearchByTagCall(tag, limit, skip) ==
    /\ pc = "idle"
    /\ op' = [NoOp EXCEPT !.kind = "tagSearch", !.text = tag,
                          !.limit = limit, !.id = skip]
    /\ pc' = "tagFind"
    /\ UNCHANGED <<store, queryEmbedding, optimizedQuery, rewriteOutcome,
                   atlasOutcome, atlasResults, manualOutcome, relevantTheses,
                   generateOutcome, calls, result, conversation, calc, others>>

\* const theses = await Thesis.find(...); return theses, or the catch.
SearchByTag ==
    /\ pc = "tagFind"
    /\ calls' = Append(calls, Call("find", op.text, 0))
    /\ pc' = "done"
    /\ \/ result' = Failure("TagSearchFailed", "Store")
       \/ result' = Docs(TagSearch(op.text, op.limit, op.id))
    /\ UNCHANGED <<store, op, queryEmbedding, optimizedQuery, rewriteOutcome,
                   atlasOutcome, atlasResults, manualOutcome, relevantTheses,
                   generateOutcome, conversation, calc, others>>

(* ------------------------------ the system ----------------------------- *)

\* The call has returned or thrown; nothing of it stays in the services.
ResetCall ==
    /\ pc = "done"
    /\ pc' = "idle"
    /\ op' = NoOp
    /\ queryEmbedding' = <<>>
    /\ optimizedQuery' = NoText
    /\ rewriteOutcome' = "none"
    /\ atlasOutcome' = "none"
    /\ atlasResults' = NoDocs
    /\ manualOutcome' = "none"
    /\ relevantTheses' = NoDocs
    /\ calls' = <<>>
    /\ generateOutcome' = "none"
    /\ result' = NoResult

\* The next request starts afresh.
Return ==
    /\ ResetCall
    /\ UNCHANGED <<store, conversation, calc, others>>

Next ==
    \/ \E q \in Messages, l \in Limits, t \in Thresholds :
         SemanticSearchCall(q, l, t)
    \/ EmbedQuery
    \/ AtlasSearch
    \/ ManualSearch
    \/ \E id \in 1 .. MaxDocs + 1, l \in Limits : FindSimilarCall(id, l)
    \/ FindReference
    \/ FindOthers
    \/ \E m \in Messages, h \in Histories, k \in Limits :
         ProcessMessageCall(m, h, k)
    \/ RewriteQuery
    \/ GenerateAnswer
    \/ \E id \in 1 .. MaxDocs + 1 : SummarizeCall(id)
    \/ SummaryLookup
    \/ SummaryGenerate
    \/ GetAllTagsCall
    \/ SuggestCall
    \/ GetAllTags
    \/ \E tag \in TagQueries, l \in TagLimits, skip \in 0 .. 1 :
         SearchByTagCall(tag, l, skip)
    \/ SearchByTag
    \/ Return

Spec == Init /\ [][Next]_vars

(* --------------------------- a chat session ---------------------------- *)

\* The caller of a chat session keeps the history the last successful turn
\* returned and passes it to the next turn.

UserTurns(history) == Len(SelectSeq(history, LAMBDA t : t.role = "user"))

InitSession == Init /\ Len(store) <= SessionDocs

\* response = await chatService.processMessage(question, {conversationHistory})
SessionChatCall(message) ==
    /\ UserTurns(conversation) < MaxTurns
    /\ ProcessMessageCall(message, conversation, DefaultTopK)

\* conversationHistory = response.conversationHistory; after a failed turn
\* the caller still holds the array it passed.
SessionReturn ==
    /\ op.kind = "chat"
    /\ ResetCall
    /\ conversation' =
         IF result.status = "ok" THEN result.history ELSE op.history
    /\ UNCHANGED <<store, calc, others>>

NextSession ==
    \/ \E m \in Messages : SessionChatCall(m)
    \/ RewriteQuery
    \/ EmbedQuery
    \/ AtlasSearch
    \/ ManualSearch
    \/ GenerateAnswer
    \/ SessionReturn

SpecSession == InitSession /\ [][NextSession]_vars

(* ------------------- the vector utilities on their own ----------------- *)

\* The vectors a caller hands to the utilities.
Components == -1 .. 1
Vectors == UNION { [1 .. n -> Components] : n \in 0 .. MaxDim }

VectorFns == {"cosineSimilarity", "euclideanDistance", "dotProduct"}

\* The number num / sqrt(rootDen); 0 / sqrt(0) is NaN.
Real(num, rootDen) == [num |-> num, rootDen |-> rootDen]
\* The number sqrt(square).
Root(square) == [root |-> square]
\* What arithmetic on an element read past the end of an array gives.
NaN == [nan |-> TRUE]

SumSquares(vec) == SumProducts(vec, vec, 1)

\* if (!vecA || !vecB || vecA.length !== vecB.length) throw, in
\* cosineSimilarity.
CosineThrows(vecA, vecB) == Len(vecA) # Len(vecB)

\* Faulty variant: the zero-norm guard left out.
AnyNormZeroUnchecked(sumA, sumB) == FALSE

\* normA === 0 || normB === 0, the norms being the square roots of the
\* sums: a square root is 0 exactly when its argument is.
AnyNormZero(sumA, sumB) == sumA = 0 \/ sumB = 0

cosineSimilarity(vecA, vecB) ==
    IF CosineThrows(vecA, vecB) THEN Threw
    ELSE LET product == SumProducts(vecA, vecB, 1)
             sumA == SumSquares(vecA)
             sumB == SumSquares(vecB)
         IN  IF AnyNormZero(sumA, sumB) THEN Returned(Real(0, 1))
             ELSE Returned(Real(product, sumA * sumB))

\* Faulty variant: the length check left out.
EuclideanThrowsNever(vecA, vecB) == FALSE

\* The same check in euclideanDistance.
EuclideanThrows(vecA, vecB) == Len(vecA) # Len(vecB)

RECURSIVE SumSquaredDiffs(_, _, _)
SumSquaredDiffs(vecA, vecB, i) ==
    IF i > Len(vecA) THEN 0
    ELSE (vecA[i] - vecB[i]) * (vecA[i] - vecB[i])
            + SumSquaredDiffs(vecA, vecB, i + 1)

\* The loop runs over vecA; an element of vecB past its end is undefined
\* and makes the sum NaN.
euclideanDistance(vecA, vecB) ==
    IF EuclideanThrows(vecA, vecB) THEN Threw
    ELSE IF Len(vecB) < Len(vecA) THEN Returned(NaN)
    ELSE Returned(Root(SumSquaredDiffs(vecA, vecB, 1)))

\* dotProduct as its caller sees it: the throw or the number.
DotProductResult(vecA, vecB) ==
    IF DotProductThrows(vecA, vecB) THEN Threw
    ELSE Returned(dotProduct(vecA, vecB))

InitVector ==
    /\ store = <<>>
    /\ IdleServices
    /\ conversation = <<>>
    /\ IdleOthers
    /\ calc \in [fn : VectorFns, vecA : Vectors, vecB : Vectors,
                  out : {Pending}]

ApplyCosineSimilarity ==
    /\ calc.fn = "cosineSimilarity"
    /\ calc.out = Pending
    /\ calc' = [calc EXCEPT !.out = cosineSimilarity(calc.vecA, calc.vecB)]
    /\ UNCHANGED <<store, pc, op, queryEmbedding, optimizedQuery,
                   rewriteOutcome, atlasOutcome, atlasResults, manualOutcome,
                   relevantTheses, generateOutcome, calls, result,
                   conversation, others>>

ApplyEuclideanDistance ==
    /\ calc.fn = "euclideanDistance"
    /\ calc.out = Pending
    /\ calc' = [calc EXCEPT !.out = euclideanDistance(calc.vecA, calc.vecB)]
    /\ UNCHANGED <<store, pc, op, queryEmbedding, optimizedQuery,
                   rewriteOutcome, atlasOutcome, atlasResults, manualOutcome,
                   relevantTheses, generateOutcome, calls, result,
                   conversation, others>>

ApplyDotProduct ==
    /\ calc.fn = "dotProduct"
    /\ calc.out = Pending
    /\ calc' = [calc EXCEPT !.out = DotProductResult(calc.vecA, calc.vecB)]
    /\ UNCHANGED <<store, pc, op, queryEmbedding, optimizedQuery,
                   rewriteOutcome, atlasOutcome, atlasResults, manualOutcome,
                   relevantTheses, generateOutcome, calls, result,
                   conversation, others>>

NextVector ==
    \/ ApplyCosineSimilarity
    \/ ApplyEuclideanDistance
    \/ ApplyDotProduct

SpecVector == InitVector /\ [][NextVector]_vars

(* --------------------------- the tag generator ------------------------- *)

\* response.trim().toLowerCase()
TrimLower(response) == LowerText(Trim(response))

StartsWith(t, prefix) ==
    Len(t) >= Len(prefix) /\ SubSeq(t, 1, Len(prefix)) = prefix

DropFirst(t, n) == SubSeq(t, n + 1, Len(t))

\* replace(/^<word>s?:\s*/, ''): word, an optional s, a colon, any white
\* space after it.
StripLabel(t, word) ==
    LET singular == word \o <<":">>
        plural == word \o <<"s", ":">>
    IN  IF StartsWith(t, plural) THEN TrimStart(DropFirst(t, Len(plural)))
        ELSE IF StartsWith(t, singular)
             THEN TrimStart(DropFirst(t, Len(singular)))
             ELSE t

LabelTag == <<"t", "a", "g">>
LabelHereAreTheTag ==
    <<"h", "e", "r", "e", " ", "a", "r", "e", " ", "t", "h", "e", " ", "t", "a", "g">>

\* The two prefix removals of parseTags, in their order.
StripPrefixes(t) == StripLabel(StripLabel(t, LabelTag), LabelHereAreTheTag)

IsSeparator(c) == c \in {",", "\n"}

RECURSIVE SkipSeparators(_)
SkipSeparators(t) ==
    IF t # <<>> /\ IsSeparator(Head(t)) THEN SkipSeparators(Tail(t)) ELSE t

\* split(/[,\n]+/): the pieces between runs of commas and newlines.
RECURSIVE SplitTags(_, _)
SplitTags(t, piece) ==
    IF t = <<>> THEN <<piece>>
    ELSE IF IsSeparator(Head(t))
         THEN <<piece>> \o SplitTags(SkipSeparators(t), <<>>)
         ELSE SplitTags(Tail(t), Append(piece, Head(t)))

MapTrim(pieces) == [i \in 1 .. Len(pieces) |-> Trim(pieces[i])]

\* /[.!?]/.test(tag)
HasPunctuation(tag) == \E i \in 1 .. Len(tag) : tag[i] \in {".", "!", "?"}

Digits == {"0", "1", "2", "3", "4", "5", "6", "7", "8", "9"}

\* A character of the class [a-z0-9\s-].
IsTagChar(c) ==
    \/ \E i \in 1 .. Len(Letters) : Letters[i] = c
    \/ c \in Digits
    \/ IsSpace(c)
    \/ c = "-"

\* tag.replace(/[^a-z0-9\s-]/g, '')
StripSymbols(tag) == SelectSeq(tag, IsTagChar)

\* tag.split(/\s+/).length: one more than the runs of white space.
RECURSIVE WordCount(_)
WordCount(tag) ==
    IF tag = <<>> THEN 1
    ELSE IF IsSpace(Head(tag))
         THEN 1 + WordCount(TrimStart(tag))
         ELSE WordCount(Tail(tag))

\* [...new Set(tags)]: the first occurrence of each tag, in order.
RECURSIVE Dedupe(_, _)
Dedupe(tags, seen) ==
    IF tags = <<>> THEN seen
    ELSE IF \E i \in 1 .. Len(seen) : seen[i] = Head(tags)
         THEN Dedupe(Tail(tags), seen)
         ELSE Dedupe(Tail(tags), Append(seen, Head(tags)))

parseTags(response) ==
    LET cleanedResponse == StripPrefixes(TrimLower(response))
        pieces == MapTrim(SplitTags(cleanedResponse, <<>>))
        sized == SelectSeq(pieces, LAMBDA tag :
                     Len(tag) > 0 /\ Len(tag) < MaxTagLength)
        plain == SelectSeq(sized, LAMBDA tag : ~HasPunctuation(tag))
        stripped == [i \in 1 .. Len(plain) |-> StripSymbols(plain[i])]
        short == SelectSeq(stripped, LAMBDA tag : WordCount(tag) <= 2)
    IN  Dedupe(short, <<>>)

FallbackTags ==
    << <<"r", "e", "s", "e", "a", "r", "c", "h">>,
       <<"a", "c", "a", "d", "e", "m", "i", "c">>,
       <<"s", "t", "u", "d", "y">>,
       <<"a", "n", "a", "l", "y", "s", "i", "s">>,
       <<"t", "h", "e", "o", "r", "y">> >>

\* while (tags.length < 3 && fallbackTags.length > 0) { shift; push unless
\* included }
RECURSIVE TopUp(_, _)
TopUp(tags, fallbackTags) ==
    IF Len(tags) < MinTags /\ Len(fallbackTags) > 0
    THEN LET fallback == Head(fallbackTags)
         IN  IF \E i \in 1 .. Len(tags) : tags[i] = fallback
             THEN TopUp(tags, Tail(fallbackTags))
             ELSE TopUp(Append(tags, fallback), Tail(fallbackTags))
    ELSE tags

\* Faulty variant: the fallbacks are pushed without the includes test.
adjustTagCountBlind(tags) ==
    IF Len(tags) < MinTags
    THEN tags \o SubSeq(FallbackTags, 1, MinTags - Len(tags))
    ELSE IF Len(tags) > MaxTags THEN Slice0(tags, MaxTags)
    ELSE tags

adjustTagCount(tags) ==
    IF Len(tags) < MinTags THEN TopUp(tags, FallbackTags)
    ELSE IF Len(tags) > MaxTags THEN Slice0(tags, MaxTags)
    ELSE tags

\* generateTags once generateText has returned response.
generateTags(response) ==
    LET tags == parseTags(response)
    IN  IF Len(tags) < MinTags \/ Len(tags) > MaxTags
        THEN adjustTagCount(tags)
        ELSE tags

\* Pieces the text-generation service puts between separators.
TagPieces ==
    << <<"m", "l">>,
       <<"A", "I">>,
       <<"a", "i">>,
       <<" ", "d", "b", " ">>,
       <<"r", "e", "s", "e", "a", "r", "c", "h">>,
       <<"a", ".", "b">>,
       <<"c", "+">>,
       <<"@">>,
       <<"x", " ", "y", " ", "z">>,
       <<"a", "c", "a", "d", "e", "m", "i", "c">>,
       <<"n", "l", "p">>,
       [i \in 1 .. MaxTagLength |-> "z"] >>

\* What it puts before the first piece, and between two pieces.
ResponsePrefixes ==
    { <<>>, <<"T", "a", "g", "s", ":", " ">>,
      <<"H", "e", "r", "e", " ", "a", "r", "e", " ", "t", "h", "e", " ", "t", "a", "g", "s", ":">> \o <<"\n">> }
ResponseSeparators == { <<",", " ">>, <<",", "\n">> }

\* The chosen pieces, in their order, with the separator between them.
RECURSIVE JoinPieces(_, _, _)
JoinPieces(chosen, i, separator) ==
    IF i > Len(TagPieces) THEN <<>>
    ELSE IF i \in chosen
         THEN LET rest == JoinPieces(chosen, i + 1, separator)
              IN  IF rest = <<>> THEN TagPieces[i]
                  ELSE TagPieces[i] \o separator \o rest
         ELSE JoinPieces(chosen, i + 1, separator)

\* The texts the generation service returns to the tag prompt.
Responses ==
    { prefix \o JoinPieces(chosen, 1, separator) :
        prefix \in ResponsePrefixes, separator \in ResponseSeparators,
        chosen \in SUBSET (1 .. Len(TagPieces)) }

InitTags ==
    /\ store = <<>>
    /\ IdleServices
    /\ conversation = <<>>
    /\ IdleOthers
    /\ calc \in [fn : {"generateTags"}, response : Responses,
                  out : {Pending}]

\* const tags = this.parseTags(response); ... return tags
ApplyGenerateTags ==
    /\ calc.fn = "generateTags"
    /\ calc.out = Pending
    /\ calc' = [calc EXCEPT !.out = Returned(generateTags(calc.response))]
    /\ UNCHANGED <<store, pc, op, queryEmbedding, optimizedQuery,
                   rewriteOutcome, atlasOutcome, atlasResults, manualOutcome,
                   relevantTheses, generateOutcome, calls, result,
                   conversation, others>>

NextTags == ApplyGenerateTags

SpecTags == InitTags /\ [][NextTags]_vars

(* ------------------------- the embedding service ----------------------- *)

\* The one EmbeddingService of the process serves several requests side by
\* side; a request gives way to the others at each await.

EmbedRequests == 1 .. MaxRequests

IdleRequest == [pc |-> "idle", text |-> NoText, out |-> Pending]

\* constructor(): this.model = null
InitEmbed ==
    /\ store = <<>>
    /\ IdleServices
    /\ conversation = <<>>
    /\ calc = NoCalc
    /\ turns = <<>>
    /\ batch = NoBatch
    /\ migration = NoMigration
    /\ embedder = [model |-> "null", loads |-> 0,
                   req |-> [r \in EmbedRequests |-> IdleRequest]]

\* generateEmbeddingFromText(text) up to the first await inside
\* initializeModel: if (this.model) return; else pipeline(...) is started.
EmbedStart(r, text) ==
    /\ embedder.req[r].pc = "idle"
    /\ embedder' =
         [embedder EXCEPT
            !.req[r] = [pc |-> IF embedder.model = "loaded"
                               THEN "infer" ELSE "loading",
                        text |-> text, out |-> Pending]]
    /\ UNCHANGED <<store, pc, op, queryEmbedding, optimizedQuery,
                   rewriteOutcome, atlasOutcome, atlasResults, manualOutcome,
                   relevantTheses, generateOutcome, calls, result,
                   conversation, calc, turns, batch, migration>>

\* this.model = await pipeline(...): the load this request started is
\* done, or it threw.
ModelLoad(r) ==
    /\ embedder.req[r].pc = "loading"
    /\ \/ embedder' = [embedder EXCEPT !.model = "loaded",
                                       !.loads = @ + 1,
                                       !.req[r].pc = "infer"]
       \/ embedder' = [embedder EXCEPT !.req[r].pc = "returned",
                                       !.req[r].out = Threw]
    /\ UNCHANGED <<store, pc, op, queryEmbedding, optimizedQuery,
                   rewriteOutcome, atlasOutcome, atlasResults, manualOutcome,
                   relevantTheses, generateOutcome, calls, result,
                   conversation, calc, turns, batch, migration>>

\* const output = await this.model(text, ...); return embedding, or throw.
EmbedInfer(r) ==
    /\ embedder.req[r].pc = "infer"
    /\ \/ embedder' =
            [embedder EXCEPT
               !.req[r].pc = "returned",
               !.req[r].out = Returned(EmbedText(embedder.req[r].text))]
       \/ embedder' = [embedder EXCEPT !.req[r].pc = "returned",
                                       !.req[r].out = Threw]
    /\ UNCHANGED <<store, pc, op, queryEmbedding, optimizedQuery,
                   rewriteOutcome, atlasOutcome, atlasResults, manualOutcome,
                   relevantTheses, generateOutcome, calls, result,
                   conversation, calc, turns, batch, migration>>

\* The caller has its vector or its error; the next request may come.
EmbedReturn(r) ==
    /\ embedder.req[r].pc = "returned"
    /\ embedder' = [embedder EXCEPT !.req[r] = IdleRequest]
    /\ UNCHANGED <<store, pc, op, queryEmbedding, optimizedQuery,
                   rewriteOutcome, atlasOutcome, atlasResults, manualOutcome,
                   relevantTheses, generateOutcome, calls, result,
                   conversation, calc, turns, batch, migration>>

NextEmbed ==
    \/ \E r \in EmbedRequests, text \in Messages : EmbedStart(r, text)
    \/ \E r \in EmbedRequests : ModelLoad(r)
    \/ \E r \in EmbedRequests : EmbedInfer(r)
    \/ \E r \in EmbedRequests : EmbedReturn(r)

SpecEmbed == InitEmbed /\ [][NextEmbed]_vars

(* ------------------------- rewriteQuery on its own --------------------- *)

\* What the text-generation service can return for the rewrite prompt:
\* every text of at most MaxRaw characters.
RECURSIVE TextsUpTo(_)
TextsUpTo(n) ==
    IF n = 0 THEN {<<>>}
    ELSE LET shorter == TextsUpTo(n - 1)
         IN  shorter \cup { Append(t, c) : t \in shorter, c \in RawChars }

\* rewriteQuery: the generated text cleaned and validated, or userQuery
\* from the catch when generateText threw.
rewriteQuery(userQuery, generated) ==
    IF generated = Threw THEN RewriteFallback(userQuery)
    ELSE RewriteResult(userQuery, generated.value)

InitRewrite ==
    /\ store = <<>>
    /\ IdleServices
    /\ conversation = <<>>
    /\ IdleOthers
    /\ calc \in [fn : {"rewriteQuery"}, userQuery : Messages,
                  generated : {Threw} \cup
                              { Returned(t) : t \in TextsUpTo(MaxRaw) },
                  out : {Pending}]

ApplyRewriteQuery ==
    /\ calc.fn = "rewriteQuery"
    /\ calc.out = Pending
    /\ calc' = [calc EXCEPT
                  !.out = Returned(rewriteQuery(calc.userQuery,
                                                calc.generated))]
    /\ UNCHANGED <<store, pc, op, queryEmbedding, optimizedQuery,
                   rewriteOutcome, atlasOutcome, atlasResults, manualOutcome,
                   relevantTheses, generateOutcome, calls, result,
                   conversation, others>>

NextRewrite == ApplyRewriteQuery

SpecRewrite == InitRewrite /\ [][NextRewrite]_vars

(* ------------------------------ ingestion ------------------------------ *)

\* The titles of the theses clients submit.
Titles == {<<"a">>, <<"b">>}

\* The batches a client submits to createBatchTheses, the empty one too.
Batches ==
    UNION { [1 .. n -> Titles] : n \in 0 .. MaxBatch }

\* How many numbers the model can hand back: the expected count, one fewer,
\* one more.
OutputLengths ==
    { EmbeddingDimensions - 1, EmbeddingDimensions, EmbeddingDimensions + 1 }

\* The tensor data the model returns for a text, n numbers long, none zero.
ModelOutput(text, n) == [k \in 1 .. n |-> TextCode(text) + 1]

\* Faulty variant: the embedding is returned as the model gave it.
FitDimensionsSkipped(embedding) == embedding

\* generateEmbeddingFromText after inference: an embedding of another
\* length is sliced to embeddingDimensions or padded with zeros.
FitDimensions(embedding) ==
    IF Len(embedding) > EmbeddingDimensions
    THEN SubSeq(embedding, 1, EmbeddingDimensions)
    ELSE embedding \o
         [k \in 1 .. EmbeddingDimensions - Len(embedding) |-> 0]

\* generateEmbedding(title, abstract) when the model answered n numbers.
generateEmbedding(title, n) == FitDimensions(ModelOutput(title, n))

\* The tags generateTags returns for a thesis.
GeneratedTags(title) == TagsOf(TextCode(title) + 1)

\* A call not yet started.
NotStarted == [status |-> "notStarted"]

\* Faulty variant: the results are gathered in the order the calls settled.
PromiseAllAsSettled(outcomes, order) ==
    [i \in 1 .. Len(outcomes) |->
       IF i <= Len(order) THEN outcomes[order[i]].value
       ELSE outcomes[i].value]

\* await Promise.all(promises) once every promise is fulfilled: the values
\* in the order of the promises, whatever the order they settled in.
PromiseAll(outcomes, order) ==
    [i \in 1 .. Len(outcomes) |-> outcomes[i].value]

AllReturned(outcomes) ==
    \A i \in 1 .. Len(outcomes) : outcomes[i].status = "ok"

\* The i-th of n documents handed to Thesis.create or Thesis.insertMany.
NewThesis(title, embeddings, tags, id) ==
    [id |-> id, title |-> title, tags |-> tags, embeddings |-> embeddings]

\* thesisDocuments of createBatchTheses, ids as the store assigns them.
thesisDocuments(theses, embeddingsArray, tagsArray, firstId) ==
    [index \in 1 .. Len(theses) |->
       NewThesis(theses[index], embeddingsArray[index], tagsArray[index],
                 firstId + index - 1)]

InitIngest ==
    /\ store = <<>>
    /\ IdleServices
    /\ conversation = <<>>
    /\ calc = NoCalc
    /\ IdleOthers

\* documents.map(doc => ...): every call is started before any is awaited.
StartedTogether(n, outcome) == [i \in 1 .. n |-> outcome]

\* createThesis up to its await: generateEmbedding and generateTags are both
\* started, then awaited with Promise.all.
CreateThesisCall(title) ==
    /\ batch.stage = "none"
    /\ Len(store) < MaxStored
    /\ batch' = [stage |-> "running", kind |-> "single",
                 theses |-> <<title>>, awaitingModel |-> FALSE,
                 embeddings |-> <<Pending>>, tags |-> <<Pending>>,
                 embeddingOrder |-> <<>>, tagOrder |-> <<>>,
                 inserted |-> 0]
    /\ UNCHANGED <<store, pc, op, queryEmbedding, optimizedQuery,
                   rewriteOutcome, atlasOutcome, atlasResults, manualOutcome,
                   relevantTheses, generateOutcome, calls, result,
                   conversation, calc, embedder, turns, migration>>

\* createBatchTheses up to its await: an empty batch is answered with 400;
\* else batchGenerateEmbeddings runs up to await this.initializeModel() and
\* batchGenerateTags starts every generateTags call.
CreateBatchCall(theses) ==
    /\ batch.stage = "none"
    /\ Len(store) + Len(theses) <= MaxStored
    /\ batch' = IF Len(theses) = 0
                THEN [stage |-> "rejected", kind |-> "batch",
                      theses |-> theses, awaitingModel |-> FALSE,
                      embeddings |-> <<>>, tags |-> <<>>,
                      embeddingOrder |-> <<>>, tagOrder |-> <<>>,
                      inserted |-> 0]
                ELSE [stage |-> "running", kind |-> "batch",
                      theses |-> theses, awaitingModel |-> TRUE,
                      embeddings |-> StartedTogether(Len(theses), NotStarted),
                      tags |-> StartedTogether(Len(theses), Pending),
                      embeddingOrder |-> <<>>, tagOrder |-> <<>>,
                      inserted |-> 0]
    /\ UNCHANGED <<store, pc, op, queryEmbedding, optimizedQuery,
                   rewriteOutcome, atlasOutcome, atlasResults, manualOutcome,
                   relevantTheses, generateOutcome, calls, result,
                   conversation, calc, embedder, turns, migration>>

\* batchGenerateEmbeddings after await this.initializeModel(): every
\* generateEmbedding call is started, or the load threw and the batch fails.
BatchModelReady ==
    /\ batch.stage = "running"
    /\ batch.awaitingModel
    /\ \/ batch' = [batch EXCEPT
                      !.awaitingModel = FALSE,
                      !.embeddings = StartedTogether(Len(batch.theses),
                                                     Pending)]
       \/ batch' = [batch EXCEPT !.awaitingModel = FALSE,
                                 !.stage = "failed"]
    /\ UNCHANGED <<store, pc, op, queryEmbedding, optimizedQuery,
                   rewriteOutcome, atlasOutcome, atlasResults, manualOutcome,
                   relevantTheses, generateOutcome, calls, result,
                   conversation, calc, embedder, turns, migration>>

\* The i-th generateEmbedding call settles: it returns the fitted embedding,
\* or it throws, Promise.all rejects and the catch passes the error on.
EmbeddingSettles(i) ==
    /\ batch.stage = "running"
    /\ i \in 1 .. Len(batch.theses)
    /\ batch.embeddings[i] = Pending
    /\ \/ \E n \in OutputLengths :
            batch' = [batch EXCEPT
                        !.embeddings[i] =
                            Returned(generateEmbedding(batch.theses[i], n)),
                        !.embeddingOrder = Append(@, i)]
       \/ batch' = [batch EXCEPT !.embeddings[i] = Threw,
                                 !.stage = "failed"]
    /\ UNCHANGED <<store, pc, op, queryEmbedding, optimizedQuery,
                   rewriteOutcome, atlasOutcome, atlasResults, manualOutcome,
                   relevantTheses, generateOutcome, calls, result,
                   conversation, calc, embedder, turns, migration>>

\* The i-th generateTags call settles: it returns its tags, or it throws,
\* Promise.all rejects and the catch passes the error on.
TaggingSettles(i) ==
    /\ batch.stage = "running"
    /\ i \in 1 .. Len(batch.theses)
    /\ batch.tags[i] = Pending
    /\ \/ batch' = [batch EXCEPT
                      !.tags[i] = Returned(GeneratedTags(batch.theses[i])),
                      !.tagOrder = Append(@, i)]
       \/ batch' = [batch EXCEPT !.tags[i] = Threw, !.stage = "failed"]
    /\ UNCHANGED <<store, pc, op, queryEmbedding, optimizedQuery,
                   rewriteOutcome, atlasOutcome, atlasResults, manualOutcome,
                   relevantTheses, generateOutcome, calls, result,
                   conversation, calc, embedder, turns, migration>>

\* Both Promise.all are fulfilled: Thesis.create / Thesis.insertMany stores
\* the documents, or throws after having stored the first k of a batch.
InsertTheses ==
    /\ batch.stage = "running"
    /\ AllReturned(batch.embeddings)
    /\ AllReturned(batch.tags)
    /\ LET documents ==
             thesisDocuments(batch.theses,
                 PromiseAll(batch.embeddings, batch.embeddingOrder),
                 PromiseAll(batch.tags, batch.tagOrder),
                 Len(store) + 1)
       IN  \/ /\ store' = store \o documents
              /\ batch' = [batch EXCEPT !.stage = "created",
                                        !.inserted = Len(documents)]
           \/ \E k \in 0 .. Len(documents) - 1 :
                /\ batch.kind = "single" => k = 0
                /\ store' = store \o SubSeq(documents, 1, k)
                /\ batch' = [batch EXCEPT !.stage = "failed",
                                          !.inserted = k]
    /\ UNCHANGED <<pc, op, queryEmbedding, optimizedQuery,
                   rewriteOutcome, atlasOutcome, atlasResults, manualOutcome,
                   relevantTheses, generateOutcome, calls, result,
                   conversation, calc, embedder, turns, migration>>

\* The request is in its last synchronous block: the response or the error
\* goes out before any other event is handled.
Responding == batch.stage \in {"created", "failed", "rejected"}

\* res.status(201/400).json(...) or next(error): the request is over.
IngestReturn ==
    /\ Responding
    /\ batch' = NoBatch
    /\ UNCHANGED <<store, pc, op, queryEmbedding, optimizedQuery,
                   rewriteOutcome, atlasOutcome, atlasResults, manualOutcome,
                   relevantTheses, generateOutcome, calls, result,
                   conversation, calc, embedder, turns, migration>>

\* What the migration uses of the theses Thesis.find({}).lean() returned.
Fetched(theses) ==
    [k \in 1 .. Len(theses) |->
       [id |-> theses[k].id, title |-> theses[k].title]]

\* migrateEmbeddings up to its loop: the theses are counted and fetched;
\* with none the script exits.
MigrationStart ==
    /\ migration.stage = "none"
    /\ ~Responding
    /\ migration' = IF Len(store) = 0 THEN NoMigration
                    ELSE [stage |-> "running", theses |-> Fetched(store),
                          i |-> 1, errorCount |-> 0]
    /\ UNCHANGED <<store, pc, op, queryEmbedding, optimizedQuery,
                   rewriteOutcome, atlasOutcome, atlasResults, manualOutcome,
                   relevantTheses, generateOutcome, calls, result,
                   conversation, calc, embedder, turns, batch>>

\* Thesis.findByIdAndUpdate(id, {$set: {embeddings: newEmbedding}}).
SetEmbeddings(theses, id, newEmbedding) ==
    [k \in 1 .. Len(theses) |->
       IF theses[k].id = id
       THEN [theses[k] EXCEPT !.embeddings = newEmbedding]
       ELSE theses[k]]

\* One round of the loop: a new embedding is generated, its length is
\* checked and the thesis is updated; any error is counted and the loop
\* goes on.
MigrationStep ==
    /\ migration.stage = "running"
    /\ ~Responding
    /\ migration.i <= Len(migration.theses)
    /\ LET thesis == migration.theses[migration.i]
           failed == [migration EXCEPT !.i = @ + 1, !.errorCount = @ + 1]
           updated == [migration EXCEPT !.i = @ + 1]
       IN  \/ \* generateEmbedding or findByIdAndUpdate throws
              /\ migration' = failed
              /\ store' = store
           \/ \E n \in OutputLengths :
                LET newEmbedding == generateEmbedding(thesis.title, n)
                IN  IF Len(newEmbedding) # EmbeddingDimensions
                    THEN /\ migration' = failed
                         /\ store' = store
                    ELSE /\ migration' = updated
                         /\ store' = SetEmbeddings(store, thesis.id,
                                                   newEmbedding)
    /\ UNCHANGED <<pc, op, queryEmbedding, optimizedQuery,
                   rewriteOutcome, atlasOutcome, atlasResults, manualOutcome,
                   relevantTheses, generateOutcome, calls, result,
                   conversation, calc, embedder, turns, batch>>

\* After the loop: the summary is printed and the script exits.
MigrationExit ==
    /\ migration.stage = "running"
    /\ ~Responding
    /\ migration.i > Len(migration.theses)
    /\ migration' = NoMigration
    /\ UNCHANGED <<store, pc, op, queryEmbedding, optimizedQuery,
                   rewriteOutcome, atlasOutcome, atlasResults, manualOutcome,
                   relevantTheses, generateOutcome, calls, result,
                   conversation, calc, embedder, turns, batch>>

NextIngest ==
    \/ \E title \in Titles : CreateThesisCall(title)
    \/ \E theses \in Batches : CreateBatchCall(theses)
    \/ BatchModelReady
    \/ \E i \in 1 .. MaxBatch : EmbeddingSettles(i)
    \/ \E i \in 1 .. MaxBatch : TaggingSettles(i)
    \/ InsertTheses
    \/ IngestReturn
    \/ MigrationStart
    \/ MigrationStep
    \/ MigrationExit

SpecIngest == InitIngest /\ [][NextIngest]_vars

(* ----------------------- two chat turns side by side ------------------- *)

\* Two callers invoke processMessage on the one ChatService; the calls
\* interleave at every await. Each call has its own message, options and
\* const locals; the services are shared.

\* The two calls in flight.
ChatCalls == {1, 2}

\* What the collaborators answered to one call, stage by stage.
NothingHeard ==
    [rewrite |-> Pending, embed |-> Pending, atlas |-> Pending,
     find |-> Pending, answer |-> Pending]

IdleTurn ==
    [pc |-> "idle", text |-> NoText, history |-> <<>>,
     optimizedQuery |-> NoText, queryEmbedding |-> <<>>,
     relevantTheses |-> NoDocs, result |-> NoResult, heard |-> NothingHeard]

\* The message each caller sends, and the histories it may pass.
MessageOf(c) == IF c % 2 = 1 THEN <<"a", "a", "a">> ELSE <<"b", "b", "b">>

\* What the generation service answers to the rewrite prompt of a turn.
TurnRewrites == { <<"b", "b", "b">>, <<"'", "a", "b", "'">>, <<" ", "\n">> }

\* Faulty variant: the locals live on the shared service, where the call
\* started last overwrote them.
TurnLocalsShared(c, all) ==
    IF \E d \in DOMAIN all : d > c /\ all[d].pc # "idle"
    THEN all[CHOOSE d \in DOMAIN all : d > c /\ all[d].pc # "idle"]
    ELSE all[c]

\* The arguments and const locals of call c: every invocation of
\* processMessage has its own.
TurnLocals(c, all) == all[c]

InitTurns ==
    /\ store \in Stores
    /\ Len(store) <= SessionDocs
    /\ IdleServices
    /\ conversation = <<>>
    /\ calc = NoCalc
    /\ embedder = NoEmbedder
    /\ batch = NoBatch
    /\ migration = NoMigration
    /\ turns = [c \in ChatCalls |-> IdleTurn]

\* processMessage(message, {conversationHistory}) is invoked.
TurnCall(c, history) ==
    /\ turns[c].pc = "idle"
    /\ turns' = [turns EXCEPT
                   ![c] = [IdleTurn EXCEPT !.pc = "rewrite",
                                           !.text = MessageOf(c),
                                           !.history = history]]
    /\ UNCHANGED <<store, pc, op, queryEmbedding, optimizedQuery,
                   rewriteOutcome, atlasOutcome, atlasResults, manualOutcome,
                   relevantTheses, generateOutcome, calls, result,
                   conversation, calc, embedder, batch, migration>>

\* Step 1: const optimizedQuery = await this.rewriteQuery(message, history)
TurnRewrite(c) ==
    /\ turns[c].pc = "rewrite"
    /\ \E generated \in {Threw} \cup { Returned(t) : t \in TurnRewrites } :
         LET my == TurnLocals(c, turns)
         IN  turns' = [turns EXCEPT
                         ![c].optimizedQuery = rewriteQuery(my.text, generated),
                         ![c].heard.rewrite = generated,
                         ![c].pc = "embed"]
    /\ UNCHANGED <<store, pc, op, queryEmbedding, optimizedQuery,
                   rewriteOutcome, atlasOutcome, atlasResults, manualOutcome,
                   relevantTheses, generateOutcome, calls, result,
                   conversation, calc, embedder, batch, migration>>

\* semanticSearch: await embeddingService.generateQueryEmbedding(query)
TurnEmbed(c) ==
    /\ turns[c].pc = "embed"
    /\ LET my == TurnLocals(c, turns)
       IN  \/ turns' = [turns EXCEPT
                          ![c].queryEmbedding = EmbedText(my.optimizedQuery),
                          ![c].heard.embed = Returned(TRUE),
                          ![c].pc = "atlas"]
           \/ turns' = [turns EXCEPT
                          ![c].result = Failure("ChatProcessingFailed",
                                                "Embedding"),
                          ![c].heard.embed = Threw,
                          ![c].pc = "done"]
    /\ UNCHANGED <<store, pc, op, queryEmbedding, optimizedQuery,
                   rewriteOutcome, atlasOutcome, atlasResults, manualOutcome,
                   relevantTheses, generateOutcome, calls, result,
                   conversation, calc, embedder, batch, migration>>

\* semanticSearch: the index is tried; it throws, or has caught up with the
\* first k documents of the store.
TurnAtlas(c) ==
    /\ turns[c].pc = "atlas"
    /\ LET my == TurnLocals(c, turns)
       IN  \/ turns' = [turns EXCEPT ![c].heard.atlas = Threw,
                                     ![c].pc = "manual"]
           \/ \E k \in 0 .. Len(store) :
                LET results == atlasVectorSearch(my.queryEmbedding,
                                   DefaultTopK, ChatThreshold,
                                   Indexed(my.queryEmbedding, k))
                IN  turns' = [turns EXCEPT
                                ![c].heard.atlas = Returned(k),
                                ![c].relevantTheses =
                                    IF UseAtlasResults(results)
                                    THEN results ELSE NoDocs,
                                ![c].pc = IF UseAtlasResults(results)
                                          THEN "generate" ELSE "manual"]
    /\ UNCHANGED <<store, pc, op, queryEmbedding, optimizedQuery,
                   rewriteOutcome, atlasOutcome, atlasResults, manualOutcome,
                   relevantTheses, generateOutcome, calls, result,
                   conversation, calc, embedder, batch, migration>>

\* semanticSearch: the manual scan; processMessage answers at once when it
\* finds nothing.
TurnManual(c) ==
    /\ turns[c].pc = "manual"
    /\ LET my == TurnLocals(c, turns)
           scan == ManualScan(my.queryEmbedding, DefaultTopK, ChatThreshold,
                              store)
       IN  \/ turns' = [turns EXCEPT
                          ![c].result = Failure("ChatProcessingFailed",
                                                "Store"),
                          ![c].heard.find = Threw,
                          ![c].pc = "done"]
           \/ turns' = [turns EXCEPT
                          ![c].heard.find = Returned(TRUE),
                          ![c].relevantTheses =
                              IF scan = Threw THEN NoDocs ELSE scan.value,
                          ![c].result =
                              IF scan = Threw
                              THEN Failure("ChatProcessingFailed",
                                           "DimensionMismatch")
                              ELSE IF Len(scan.value) = 0
                                   THEN NoResultsReply(my.text, my.history)
                                   ELSE NoResult,
                          ![c].pc = IF scan # Threw /\ Len(scan.value) > 0
                                    THEN "generate" ELSE "done"]
    /\ UNCHANGED <<store, pc, op, queryEmbedding, optimizedQuery,
                   rewriteOutcome, atlasOutcome, atlasResults, manualOutcome,
                   relevantTheses, generateOutcome, calls, result,
                   conversation, calc, embedder, batch, migration>>

\* Steps 3 to 5: generateRAGResponse, sources, the returned history.
TurnGenerate(c) ==
    /\ turns[c].pc = "generate"
    /\ LET my == TurnLocals(c, turns)
       IN  \/ turns' = [turns EXCEPT
                          ![c].result = Failure("ChatProcessingFailed",
                                                "Generation"),
                          ![c].heard.answer = Threw,
                          ![c].pc = "done"]
           \/ \E raw \in RawAnswers :
                turns' = [turns EXCEPT
                            ![c].result = AnswerReply(my.text, my.history,
                                              Trim(raw), my.relevantTheses),
                            ![c].heard.answer = Returned(raw),
                            ![c].pc = "done"]
    /\ UNCHANGED <<store, pc, op, queryEmbedding, optimizedQuery,
                   rewriteOutcome, atlasOutcome, atlasResults, manualOutcome,
                   relevantTheses, generateOutcome, calls, result,
                   conversation, calc, embedder, batch, migration>>

\* The caller has its reply or its error.
TurnReturn(c) ==
    /\ turns[c].pc = "done"
    /\ turns' = [turns EXCEPT ![c] = IdleTurn]
    /\ UNCHANGED <<store, pc, op, queryEmbedding, optimizedQuery,
                   rewriteOutcome, atlasOutcome, atlasResults, manualOutcome,
                   relevantTheses, generateOutcome, calls, result,
                   conversation, calc, embedder, batch, migration>>

NextTurns ==
    \/ \E c \in ChatCalls, history \in Histories : TurnCall(c, history)
    \/ \E c \in ChatCalls : TurnRewrite(c)
    \/ \E c \in ChatCalls : TurnEmbed(c)
    \/ \E c \in ChatCalls : TurnAtlas(c)
    \/ \E c \in ChatCalls : TurnManual(c)
    \/ \E c \in ChatCalls : TurnGenerate(c)
    \/ \E c \in ChatCalls : TurnReturn(c)

SpecTurns == InitTurns /\ [][NextTurns]_vars

(* ------------------------------ properties ---------------------------- *)

\* semanticSearch has returned a list (to its caller or to processMessage).
SearchCompleted ==
    /\ op.kind \in {"search", "chat"}
    /\ atlasOutcome = "hit" \/ manualOutcome = "ok"

\* The list semanticSearch returned.
SearchResults == IF op.kind = "chat" THEN relevantTheses ELSE result.docs

\* The text semanticSearch was asked to search for.
SearchQuery == IF op.kind = "chat" THEN optimizedQuery ELSE op.text

IdsOf(docs) == [i \in 1 .. Len(docs) |-> docs[i].id]

NonIncreasing(docs) ==
    \A i \in 1 .. Len(docs) - 1 : docs[i].score >= docs[i + 1].score

\* C1: every list semanticSearch returns, from the index or from the manual
\* scan, has non-increasing scores.
C1_ScoresNonIncreasing == SearchCompleted => NonIncreasing(SearchResults)

\* The manual scan returned two documents that it had to reorder.
C1_Witness ==
    /\ SearchCompleted
    /\ manualOutcome = "ok"
    /\ Len(SearchResults) >= 2
    /\ SearchResults[1].score > SearchResults[2].score
    /\ SearchResults[1].id > SearchResults[2].id

\* C2: no document of a list semanticSearch returns scores below the
\* threshold the caller supplied, on either path.
C2_NoScoreBelowThreshold ==
    SearchCompleted =>
        \A i \in 1 .. Len(SearchResults) : SearchResults[i].score >= op.threshold

\* The manual scan dropped a document for its score, not for the limit.
C2_Witness ==
    /\ SearchCompleted
    /\ manualOutcome = "ok"
    /\ op.limit >= Len(store)
    /\ Len(SearchResults) > 0
    /\ Len(SearchResults) < Len(store)

Qualifying(queryVec, threshold) ==
    { i \in 1 .. Len(store) :
        dotProduct(queryVec, store[i].embeddings) >= threshold }

Precedes(j, i, queryVec) ==
    LET sj == dotProduct(queryVec, store[j].embeddings)
        si == dotProduct(queryVec, store[i].embeddings)
    IN  sj > si \/ (sj = si /\ j < i)

RankOf(i, queryVec, threshold) ==
    1 + Cardinality({ j \in Qualifying(queryVec, threshold) :
                        Precedes(j, i, queryVec) })

ReferenceRanking(queryVec, threshold) ==
    [r \in 1 .. Cardinality(Qualifying(queryVec, threshold)) |->
        store[CHOOSE i \in Qualifying(queryVec, threshold) :
                 RankOf(i, queryVec, threshold) = r].id]

\* C4: with the index unavailable, semanticSearch returns the ids of the
\* manual dot-product computation (filter, sort descending, truncate), in
\* the same order.
C4_FallbackEquivalence ==
    (SearchCompleted /\ atlasOutcome = "error") =>
        IdsOf(SearchResults) =
            Slice0(ReferenceRanking(EmbedText(SearchQuery), op.threshold),
                   op.limit)

\* The index threw and the fallback ranked a three-document store.
C4_Witness ==
    /\ SearchCompleted
    /\ atlasOutcome = "error"
    /\ Len(store) = 3
    /\ Len(SearchResults) = 2
    /\ SearchResults[1].id > SearchResults[2].id

ManualRan == \E i \in 1 .. Len(calls) : calls[i].call = "find"

\* C5: the manual scan runs exactly when the indexed path threw or returned
\* nothing; a non-empty indexed result is returned as it is, without a scan.
C5_ManualExactlyOnFallback ==
    op.kind \in {"search", "chat"} =>
        /\ ManualRan => atlasOutcome \in {"error", "empty"}
        /\ (atlasOutcome \in {"error", "empty"} /\ pc # "manual") => ManualRan
        /\ atlasOutcome = "empty" => atlasResults = NoDocs
        /\ atlasOutcome = "hit" =>
             /\ ~ManualRan
             /\ Len(atlasResults) > 0
             /\ SearchResults = atlasResults

\* The index returned nothing and the manual scan then found documents.
C5_Witness ==
    /\ SearchCompleted
    /\ atlasOutcome = "empty"
    /\ manualOutcome = "ok"
    /\ Len(SearchResults) > 0

\* C6: semanticSearch throws when both paths fail; a failure of the indexed
\* path alone is absorbed whenever the manual path succeeds.
C6_OnlyDoubleFailureSurfaces ==
    /\ (op.kind = "search" /\ pc = "done") =>
         /\ (atlasOutcome = "error" /\ manualOutcome = "error") =>
              (result.status = "error" /\ result.error = "SemanticSearchFailed")
         /\ (atlasOutcome = "error" /\ manualOutcome = "ok") =>
              result.status = "ok"
         /\ (atlasOutcome = "error" /\ result.status = "error") =>
              manualOutcome = "error"
    /\ (op.kind = "chat" /\ atlasOutcome = "error" /\ result.status = "error") =>
         (manualOutcome = "error" \/ result.cause = "Generation")

\* The index threw, the manual scan succeeded and the caller got documents.
C6_Witness ==
    /\ op.kind = "search"
    /\ pc = "done"
    /\ atlasOutcome = "error"
    /\ manualOutcome = "ok"
    /\ result.status = "ok"
    /\ Len(result.docs) > 0

\* C7: the reference document's own id is never in findSimilarTheses' list.
C7_SimilarExcludesSelf ==
    (op.kind = "similar" /\ result.status = "ok") =>
        \A i \in 1 .. Len(result.docs) : result.docs[i].id # op.id

\* findSimilarTheses returned other documents for a stored reference.
C7_Witness ==
    /\ op.kind = "similar"
    /\ result.status = "ok"
    /\ op.id \in Ids(store)
    /\ Len(result.docs) >= 2

C9_AbsentIdFailsFirst ==
    (op.kind \in {"similar", "summarize"} /\ op.id \notin Ids(store)) =>
        /\ pc \notin {"findOthers", "summaryGenerate"}
        /\ pc = "done" =>
             /\ result.status = "error"
             /\ result.error = IF op.kind = "similar" THEN "SimilarSearchFailed"
                               ELSE "SummarizationFailed"
             \* "Store": the lookup itself threw
             /\ result.cause \in {"ThesisNotFound", "Store"}
             /\ calls = <<Call("findById", NoText, op.id)>>

\* findSimilarTheses failed with not-found although the store had documents.
C9_Witness ==
    /\ op.kind = "similar"
    /\ pc = "done"
    /\ op.id \notin Ids(store)
    /\ Len(store) >= 2
    /\ result.cause = "ThesisNotFound"

\* C10: when the rewrite's generation call throws, rewriteQuery returns the
\* user's message and processMessage goes on to search with that message.
C10_RewriteFailureFallsBack ==
    rewriteOutcome = "threw" =>
        /\ optimizedQuery = op.text
        /\ pc # "rewrite"
        /\ \A i \in 1 .. Len(calls) :
             calls[i].call = "embed" => calls[i].text = op.text
        /\ pc # "embed" => \E i \in 1 .. Len(calls) : calls[i].call = "embed"
        /\ (pc = "done" /\ result.status = "error") =>
             result.cause \in {"Embedding", "Store", "DimensionMismatch",
                               "Generation"}

\* The rewrite threw and the chat turn still answered from retrieved sources.
C10_Witness ==
    /\ rewriteOutcome = "threw"
    /\ pc = "done"
    /\ result.status = "ok"
    /\ Len(result.sources) > 0

(* ------------------------------ chat turns ----------------------------- *)

\* processMessage has returned or thrown.
ChatDone == op.kind = "chat" /\ pc = "done"

\* The search of a chat turn returned an empty list.
ZeroDocuments ==
    op.kind = "chat" /\ SearchCompleted /\ Len(relevantTheses) = 0

AnswerCalls == SelectSeq(calls, LAMBDA c : c.call = "generate:answer")

\* C11: when retrieval yields no document, processMessage returns at once
\* and successfully: empty sources, a non-empty canned answer, the input
\* history plus the user's turn only, and no answer-generation call.
C11_ZeroDocumentsCannedAnswer ==
    ZeroDocuments =>
        /\ pc = "done"
        /\ result.status = "ok"
        /\ result.sources = <<>>
        /\ result.answer # NoText
        /\ result.history = op.history \o <<UserTurn(op.text)>>
        /\ AnswerCalls = <<>>
        /\ generateOutcome = "none"

\* A turn with earlier history found nothing in a non-empty store.
C11_Witness ==
    /\ ZeroDocuments
    /\ pc = "done"
    /\ op.history # <<>>
    /\ Len(store) > 0

\* C12: the rewritten query goes to retrieval only; the question of the
\* answer prompt and the user turn put on the history are the caller's
\* original message.
C12_OriginalMessageAnswered ==
    op.kind = "chat" =>
        /\ \A i \in 1 .. Len(calls) :
             /\ calls[i].call = "embed" => calls[i].text = optimizedQuery
             /\ calls[i].call = "generate:answer" => calls[i].text = op.text
        /\ (pc = "done" /\ result.status = "ok") =>
             /\ Len(result.history) > Len(op.history)
             /\ result.history[Len(op.history) + 1] = UserTurn(op.text)
             /\ \A i \in 1 .. Len(result.history) :
                  result.history[i].content # optimizedQuery
                     \/ optimizedQuery = op.text
                     \/ i <= Len(op.history)

\* An answer was generated in a turn whose query had been rewritten.
C12_Witness ==
    /\ ChatDone
    /\ generateOutcome = "returned"
    /\ optimizedQuery # op.text
    /\ \E i \in 1 .. Len(calls) :
         calls[i].call = "embed" /\ calls[i].text # op.text

\* The stored document with the given id has this title and these tags.
StoredAs(id, title, tags) ==
    \E i \in 1 .. Len(store) :
        store[i].id = id /\ store[i].title = title /\ store[i].tags = tags

\* C13: with at least one retrieved document, sources is as long as the
\* retrieved list and its i-th entry carries the id, title, tags and score
\* of the i-th retrieved document, in retrieval order.
C13_SourcesMirrorRetrieved ==
    (ChatDone /\ result.status = "ok" /\ Len(relevantTheses) >= 1) =>
        /\ Len(result.sources) = Len(relevantTheses)
        /\ \A i \in 1 .. Len(relevantTheses) :
             /\ result.sources[i].id = relevantTheses[i].id
             /\ result.sources[i].title = relevantTheses[i].title
             /\ result.sources[i].tags = relevantTheses[i].tags
             /\ result.sources[i].relevanceScore = relevantTheses[i].score
             /\ StoredAs(result.sources[i].id, result.sources[i].title,
                         result.sources[i].tags)

\* Two documents of different scores and different tags were retrieved.
C13_Witness ==
    /\ ChatDone
    /\ result.status = "ok"
    /\ Len(result.sources) = 2
    /\ result.sources[1].relevanceScore > result.sources[2].relevanceScore
    /\ result.sources[1].tags # result.sources[2].tags

\* The last collaborator call of a finished turn was the query embedding:
\* generateQueryEmbedding threw.
EmbeddingFailed ==
    pc = "done" /\ calls # <<>> /\ calls[Len(calls)].call = "embed"

\* Retrieval failed: the embedding, or the manual scan after the index.
RetrievalFailed == EmbeddingFailed \/ manualOutcome = "error"

\* C15: when retrieval or answer generation fails, processMessage returns
\* no chat result and raises the chat-processing-failed error; the only
\* successful turn without a generated answer is the zero-documents one.
C15_FailuresRaiseChatError ==
    ChatDone =>
        /\ (RetrievalFailed \/ generateOutcome = "threw") =>
             /\ result.status = "error"
             /\ result.error = "ChatProcessingFailed"
             /\ result.answer = NoText
             /\ result.sources = <<>>
             /\ result.history = <<>>
        /\ result.status = "ok" =>
             \/ generateOutcome = "returned"
             \/ /\ ZeroDocuments
                /\ result.answer = CannedAnswer

\* The index found nothing, the manual scan threw, and the turn failed.
C15_Witness ==
    /\ ChatDone
    /\ atlasOutcome = "empty"
    /\ manualOutcome = "error"
    /\ result.status = "error"
    /\ op.history # <<>>

\* s is a prefix of t.
IsPrefix(s, t) == Len(s) <= Len(t) /\ SubSeq(t, 1, Len(s)) = s

\* The turns a finished call put after its input history.
AppendedTurns ==
    SubSeq(result.history, Len(op.history) + 1, Len(result.history))

\* A successful turn of a session has returned.
TurnSucceeded ==
    ChatDone /\ result.status = "ok" /\ op.history = conversation

\* C14 as stated: in a chain of successful turns the input history is a
\* prefix of the returned one and the appended turns are the user turn
\* followed by the assistant turn.
C14_AppendsUserThenAssistant ==
    TurnSucceeded =>
        /\ IsPrefix(op.history, result.history)
        /\ AppendedTurns =
             <<UserTurn(op.text), AssistantTurn(result.answer)>>

\* C14, amended: the input history is a prefix of the returned one; a turn
\* that retrieved documents appends the user turn then the assistant turn,
\* a turn that retrieved none appends the user turn only.
C14_AppendsUserThenAssistantIfRetrieved ==
    /\ pc # "idle" => op.history = conversation
    /\ TurnSucceeded =>
        /\ IsPrefix(op.history, result.history)
        /\ AppendedTurns =
             IF ZeroDocuments
             THEN <<UserTurn(op.text)>>
             ELSE <<UserTurn(op.text), AssistantTurn(result.answer)>>

\* The second answered turn of a conversation has returned.
C14_Witness ==
    /\ TurnSucceeded
    /\ Len(op.history) = 2
    /\ Len(result.history) = 4
    /\ result.history[3].content # result.history[1].content

(* ------------------------- tags and suggestions ------------------------ *)

\* C16: getSuggestedQuestions never raises and always returns a non-empty
\* list of questions, whether the store has tags, has none, or the tag
\* query fails.
C16_SuggestionsNeverFail ==
    (op.kind = "suggest" /\ pc = "done") =>
        /\ result.status = "ok"
        /\ Len(result.questions) > 0

\* The tag query of a non-empty store had been made when the suggestions
\* came back generic: it threw.
C16_Witness ==
    /\ op.kind = "suggest"
    /\ pc = "done"
    /\ Len(store) > 0
    /\ Len(result.questions) = 1

(* ------------------------------ the store ------------------------------ *)

\* C17: no step of semanticSearch, findSimilarTheses, searchByTag,
\* getAllTags, processMessage, getSuggestedQuestions or summarizeThesis,
\* successful or failed, changes the stored documents or their fields.
C17_StoreUnchanged == [][store' = store]_vars

\* A manual scan over a full store has scored and returned documents.
C17_Witness ==
    /\ pc = "done"
    /\ manualOutcome = "ok"
    /\ Len(store) = MaxDocs
    /\ Len(SearchResults) > 0

(* --------------------------- vector utilities -------------------------- *)

\* A vector utility has been applied to its two arguments.
VectorCallDone == calc.fn \in VectorFns /\ calc.out # Pending

IsZeroVector(vec) == \A i \in 1 .. Len(vec) : vec[i] = 0

\* C18: dotProduct, cosineSimilarity and euclideanDistance each throw, and
\* return no number, whenever the two vectors differ in length.
C18_LengthMismatchThrows ==
    (VectorCallDone /\ Len(calc.vecA) # Len(calc.vecB)) => calc.out = Threw

\* euclideanDistance was applied to a longer and a shorter vector.
C18_Witness ==
    /\ VectorCallDone
    /\ calc.fn = "euclideanDistance"
    /\ Len(calc.vecA) > Len(calc.vecB)
    /\ Len(calc.vecB) > 0

\* C19: cosineSimilarity returns 0, and throws nothing, whenever at least
\* one of its equal-length arguments is a zero vector.
C19_ZeroVectorGivesZero ==
    ( /\ VectorCallDone
      /\ calc.fn = "cosineSimilarity"
      /\ Len(calc.vecA) = Len(calc.vecB)
      /\ IsZeroVector(calc.vecA) \/ IsZeroVector(calc.vecB) )
    => calc.out = Returned(Real(0, 1))

\* cosineSimilarity was applied to a non-zero vector and a zero vector of
\* the same, positive length.
C19_Witness ==
    /\ VectorCallDone
    /\ calc.fn = "cosineSimilarity"
    /\ Len(calc.vecA) = MaxDim
    /\ Len(calc.vecB) = MaxDim
    /\ ~IsZeroVector(calc.vecA)
    /\ IsZeroVector(calc.vecB)

(* ---------------------------- tag generation --------------------------- *)

NoDuplicates(tags) ==
    \A i, j \in 1 .. Len(tags) : tags[i] = tags[j] => i = j

\* generateTags has returned for the response the service gave.
TagsReturned == calc.fn = "generateTags" /\ calc.out # Pending

\* C20: for every text the generation service returns, generateTags
\* returns 3 to 5 tags, no tag twice: fewer than 3 parsed tags are topped up
\* from the fallback list to exactly 3, more than 5 are cut to the first 5.
C20_ThreeToFiveDistinctTags ==
    TagsReturned =>
        LET tags == calc.out.value
            parsed == parseTags(calc.response)
        IN  /\ Len(tags) >= MinTags
            /\ Len(tags) <= MaxTags
            /\ NoDuplicates(tags)
            /\ Len(parsed) < MinTags =>
                 /\ Len(tags) = MinTags
                 /\ IsPrefix(parsed, tags)
                 /\ \A i \in Len(parsed) + 1 .. Len(tags) :
                      \E j \in 1 .. Len(FallbackTags) :
                          tags[i] = FallbackTags[j]
            /\ Len(parsed) > MaxTags => tags = SubSeq(parsed, 1, MaxTags)
            /\ (Len(parsed) >= MinTags /\ Len(parsed) <= MaxTags) =>
                 tags = parsed

\* Two tags were parsed, both of them fallback tags, and a third was added.
C20_Witness ==
    /\ TagsReturned
    /\ parseTags(calc.response) = <<FallbackTags[1], FallbackTags[2]>>
    /\ calc.out.value[3] = FallbackTags[3]

(* --------------------------- order of the calls ------------------------ *)

CallNames == [i \in 1 .. Len(calls) |-> calls[i].call]

\* The external calls of a chat turn, in order, when the index answers and
\* when the manual scan has to take over.
TurnWithIndex ==
    <<"generate:rewrite", "embed", "aggregate", "generate:answer">>
TurnWithScan ==
    <<"generate:rewrite", "embed", "aggregate", "find", "generate:answer">>

Made(name) == \E i \in 1 .. Len(calls) : calls[i].call = name

\* C23: the external calls of one processMessage call are made in the order
\* rewrite generation, query embedding, store retrieval, answer generation,
\* each at most once and one after the other, and after a failed stage no
\* later stage is called: the store is not queried when the embedding
\* failed, the answer is not generated when retrieval failed.
C23_CallsInStageOrder ==
    op.kind = "chat" =>
        /\ IsPrefix(CallNames, TurnWithIndex)
              \/ IsPrefix(CallNames, TurnWithScan)
        /\ (pc = "done" /\ result.cause = "Embedding") =>
              /\ CallNames = <<"generate:rewrite", "embed">>
              /\ ~Made("aggregate") /\ ~Made("find")
        /\ (pc = "done" /\ manualOutcome = "error") =>
              /\ CallNames[Len(calls)] = "find"
              /\ ~Made("generate:answer")
        /\ (pc = "done" /\ generateOutcome = "threw") =>
              CallNames[Len(calls)] = "generate:answer"
        /\ pc = "embed" => CallNames = <<"generate:rewrite">>
        /\ pc = "atlas" => CallNames = <<"generate:rewrite", "embed">>
        /\ pc = "generate" => CallNames[Len(calls)] \in {"aggregate", "find"}

\* The embedding call of a chat turn failed and the turn ended there.
C23_Witness ==
    /\ ChatDone
    /\ result.cause = "Embedding"
    /\ Len(store) > 0
    /\ rewriteOutcome = "returned"

(* ------------------------------- ties ---------------------------------- *)

\* The position of the document with this id in the store scan.
ScanPosition(id) == CHOOSE i \in 1 .. Len(store) : store[i].id = id

\* Documents of equal score are in the order of the store scan.
TiesInScanOrder(docs) ==
    \A i, j \in 1 .. Len(docs) :
        (i < j /\ docs[i].score = docs[j].score) =>
            ScanPosition(docs[i].id) < ScanPosition(docs[j].id)

\* The list the manual scan or findSimilarTheses returned.
ScanRanked ==
    IF op.kind = "similar" THEN result.docs ELSE SearchResults

ScanReturned ==
    \/ op.kind \in {"search", "chat"} /\ manualOutcome = "ok"
    \/ op.kind = "similar" /\ pc = "done" /\ result.status = "ok"

\* C26: in the manual search path and in findSimilarTheses two documents of
\* equal score are returned in the order of the store scan, so the returned
\* sequence of ids is determined by the store and the arguments.
C26_TiesKeepScanOrder ==
    ScanReturned =>
        /\ TiesInScanOrder(ScanRanked)
        /\ NonIncreasing(ScanRanked)
        /\ (op.kind # "similar") =>
             IdsOf(ScanRanked) =
                Slice0(ReferenceRanking(queryEmbedding, op.threshold),
                       op.limit)

\* Two documents tied and both were returned.
C26_Witness ==
    /\ ScanReturned
    /\ Len(ScanRanked) = 2
    /\ ScanRanked[1].score = ScanRanked[2].score

(* ------------------------ mismatched dimensions ------------------------ *)

\* Some document among theses has a vector of another length than vec.
SomeMismatch(vec, theses) ==
    \E i \in 1 .. Len(theses) : Len(theses[i].embeddings) # Len(vec)

\* C28: when a stored document's vector differs in length from the query
\* (or reference) vector, the manual search path and findSimilarTheses fail
\* as a whole: an error, no document skipped or scored 0, no partial list.
C28_MismatchFailsWholeScan ==
    /\ ( /\ op.kind \in {"search", "chat"}
         /\ manualOutcome # "none"
         /\ SomeMismatch(queryEmbedding, store) )
       => /\ pc = "done"
          /\ result.status = "error"
          /\ result.docs = NoDocs
          /\ result.sources = <<>>
          /\ relevantTheses = NoDocs
    /\ ( /\ op.kind = "similar"
         /\ pc = "done"
         /\ Made("find")
         /\ SomeMismatch(queryEmbedding,
                         SelectSeq(store, LAMBDA d : d.id # op.id)) )
       => /\ result.status = "error"
          /\ result.docs = NoDocs

\* The manual scan met one legacy vector among matching ones and failed
\* without the store read itself failing.
C28_Witness ==
    /\ op.kind = "search"
    /\ manualOutcome = "error"
    /\ result.cause = "DimensionMismatch"
    /\ Len(store) = MaxDocs
    /\ \E i \in 1 .. Len(store) :
         Len(store[i].embeddings) = Len(queryEmbedding)

(* --------------------------- candidate pool ---------------------------- *)

\* C22: for every limit passed to the indexed search path, the candidate
\* pool size handed to the vector index is at least that limit.
C22_PoolAtLeastLimit ==
    (op.kind \in {"search", "chat"} /\ Made("aggregate")) =>
        CandidatePool(op.limit) >= op.limit

(* ------------------------- the embedding model ------------------------- *)

\* C29: the embedding model is loaded at most once over the lifetime of the
\* embedding service, also when several requests call initializeModel
\* before the first load has completed.
C29_ModelLoadedAtMostOnce == embedder.loads <= 1

(* ---------------------------- query rewriting -------------------------- *)

RewriteDone == calc.fn = "rewriteQuery" /\ calc.out # Pending

\* C24: rewriteQuery returns the original user message unchanged whenever
\* the cleaned generation output (trimmed, one wrapping quote stripped at
\* each end, newlines replaced by spaces, trimmed again) is empty or shorter
\* than 3 characters; otherwise it returns the cleaned output, which holds
\* no newline and neither starts nor ends with whitespace.
C24_RewriteCleanedOrOriginal ==
    (RewriteDone /\ calc.generated # Threw) =>
        LET cleaned == CleanQuery(calc.generated.value)
            out == calc.out.value
        IN  IF Len(cleaned) < MinQueryLength
            THEN out = calc.userQuery
            ELSE /\ out = cleaned
                 /\ \A i \in 1 .. Len(out) : out[i] # "\n"
                 /\ ~IsSpace(out[1])
                 /\ ~IsSpace(out[Len(out)])

\* A generated text wrapped in a quote, with a newline inside and a space
\* before the closing quote, was cleaned and returned.
C24_Witness ==
    /\ RewriteDone
    /\ calc.generated # Threw
    /\ Len(calc.generated.value) = MaxRaw
    /\ Head(calc.generated.value) = "'"
    /\ \E i \in 1 .. MaxRaw : calc.generated.value[i] = "\n"
    /\ calc.out.value # calc.userQuery
    /\ Len(calc.out.value) < MaxRaw - 1

(* ------------------------ the caller's history ------------------------- *)

\* C30: processMessage never modifies the conversationHistory array it is
\* given, whether the turn succeeds or fails: from the call to the return
\* the array holds what the caller passed, and after a failed turn the
\* caller's history is what it was before the call.
C30_GivenHistoryUntouched ==
    [][ /\ (op.kind = "chat" /\ op'.kind = "chat") =>
              op'.history = op.history
        /\ (ChatDone /\ result.status = "error" /\ pc' = "idle") =>
              conversation' = conversation ]_vars

\* The second turn of a session read the history in every stage and failed
\* in the last one, the generation of the answer.
C30_Witness ==
    /\ ChatDone
    /\ result.status = "error"
    /\ generateOutcome = "threw"
    /\ Len(op.history) = 2
    /\ op.history = conversation

(* ------------------------------ ingestion ------------------------------ *)

BatchInFlight == batch.stage = "running" /\ batch.kind = "batch"

\* An embedding call or a tagging call of the request has failed.
ACallFailed(b) ==
    /\ b.stage # "none"
    /\ \E i \in 1 .. Len(b.theses) :
         b.embeddings[i] = Threw \/ b.tags[i] = Threw

\* The documents of the batch, each with the value its own embedding call
\* and its own tagging call returned.
AlignedDocuments(b, firstId) ==
    [i \in 1 .. Len(b.theses) |->
       [id |-> firstId + i - 1, title |-> b.theses[i],
        tags |-> b.tags[i].value, embeddings |-> b.embeddings[i].value]]

\* C27: in batch thesis creation the embedding calls and the tagging calls
\* run concurrently (every tagging call is in flight from the start, the
\* embedding calls are started together, none waits for another to settle);
\* for every completion order the i-th input document is stored with the
\* i-th embedding and the i-th tag list; and if any single embedding or
\* tagging call fails, no document of the batch is inserted.
C27_BatchConcurrentAlignedAllOrNothing ==
    /\ [](BatchInFlight =>
            /\ \A i \in 1 .. Len(batch.theses) : batch.tags[i] # NotStarted
            /\ \/ \A i \in 1 .. Len(batch.theses) :
                    batch.embeddings[i] = NotStarted
               \/ \A i \in 1 .. Len(batch.theses) :
                    batch.embeddings[i] # NotStarted)
    /\ [][ /\ (BatchInFlight /\ Len(store') > Len(store)) =>
                \E k \in 1 .. Len(batch.theses) :
                    store' = store \o
                        SubSeq(AlignedDocuments(batch, Len(store) + 1), 1, k)
           /\ (BatchInFlight /\ batch'.stage = "created") =>
                store' = store \o AlignedDocuments(batch, Len(store) + 1)
           /\ (ACallFailed(batch) \/ ACallFailed(batch')) =>
                Len(store') = Len(store) ]_vars

\* A batch of two different theses was stored although the second embedding
\* call settled before the first and the tagging calls settled in order.
C27_Witness ==
    /\ batch.stage = "created"
    /\ batch.kind = "batch"
    /\ Len(batch.theses) = MaxBatch
    /\ batch.theses[1] # batch.theses[2]
    /\ batch.embeddingOrder[1] = 2
    /\ batch.tagOrder[1] = 1
    /\ Len(store) = MaxBatch

(* ----------------------- two chat turns side by side ------------------- *)

\* What processMessage(text, {conversationHistory: history}) returns when it
\* runs alone and its collaborators answer what heard records.
SoloReply(text, history, heard) ==
    LET query == rewriteQuery(text, heard.rewrite)
        vec == EmbedText(query)
        fromIndex == IF heard.atlas.status = "ok"
                     THEN atlasVectorSearch(vec, DefaultTopK, ChatThreshold,
                                            Indexed(vec, heard.atlas.value))
                     ELSE NoDocs
        scan == ManualScan(vec, DefaultTopK, ChatThreshold, store)
    IN  IF heard.embed = Threw
        THEN Failure("ChatProcessingFailed", "Embedding")
        ELSE IF UseAtlasResults(fromIndex)
        THEN IF heard.answer = Threw
             THEN Failure("ChatProcessingFailed", "Generation")
             ELSE AnswerReply(text, history, Trim(heard.answer.value),
                              fromIndex)
        ELSE IF heard.find = Threw
        THEN Failure("ChatProcessingFailed", "Store")
        ELSE IF scan = Threw
        THEN Failure("ChatProcessingFailed", "DimensionMismatch")
        ELSE IF Len(scan.value) = 0
        THEN NoResultsReply(text, history)
        ELSE IF heard.answer = Threw
        THEN Failure("ChatProcessingFailed", "Generation")
        ELSE AnswerReply(text, history, Trim(heard.answer.value), scan.value)

\* C21: for any interleaving of two concurrent processMessage calls, each
\* call returns the answer, sources and history it would return if it ran
\* alone with the same collaborator responses; in particular the history a
\* call returns is its own input history followed by its own turns, and
\* holds no turn of the other call.
C21_ConcurrentCallsIndependent ==
    \A c \in ChatCalls :
        turns[c].pc = "done" =>
            /\ turns[c].result =
                 SoloReply(turns[c].text, turns[c].history, turns[c].heard)
            /\ turns[c].result.status = "ok" =>
                 LET returned == turns[c].result.history
                 IN  /\ IsPrefix(turns[c].history, returned)
                     /\ \A i \in Len(turns[c].history) + 1 .. Len(returned) :
                          /\ returned[i] \in
                               { UserTurn(turns[c].text),
                                 AssistantTurn(turns[c].result.answer) }
                          /\ \A d \in ChatCalls \ {c} :
                               returned[i] # UserTurn(MessageOf(d))

\* The first call has returned its answer, with a history of four turns,
\* while the second call, started with an empty history, is between its
\* retrieval and its answer.
C21_Witness ==
    /\ turns[1].pc = "done"
    /\ turns[1].result.status = "ok"
    /\ Len(turns[1].result.history) = 4
    /\ turns[2].pc = "generate"
    /\ turns[2].history = <<>>
    /\ turns[2].optimizedQuery # turns[1].optimizedQuery

====
